---- MODULE Spec2Model ----
(***************************************************************************)
(* CredLens: evidence aggregation (NLIVerifier, IndustrialFactChecker),    *)
(* stance classification with its fallback (NLIVerifier), and the          *)
(* analysis cache (Database) with the /analyze handler that uses it.       *)
(*                                                                         *)
(* Numbers.  Confidences, similarities and ratios are floats in the code.  *)
(* Here a confidence or a similarity is an integer number of hundredths    *)
(* (0.85 is 85, -0.5 is -50), a weight is kept doubled so that             *)
(* (confidence + similarity) / 2 stays an integer, and a comparison of a   *)
(* quotient with a constant is done by cross-multiplication, with the sign *)
(* of the divisor taken into account.  The arithmetic is exact: rounding   *)
(* of IEEE doubles is not modelled.                                        *)
(***************************************************************************)
EXTENDS Integers, Sequences, FiniteSets, TLC

VARIABLES
    evidence_list,      \* argument of NLIVerifier.aggregate_evidence_verdict
    agg_result,         \* what aggregate_evidence_verdict returned (NoCall before)
    evidence_sources,   \* argument of IndustrialFactChecker._compare_against_evidence
    decide_result,      \* what _decide_verdict returned on the comparison (NoCall before)
    nli_pipeline,       \* NLIVerifier.nli_pipeline: "loaded" or "None"
    retrieved,          \* retrieved_fact_checks: sequence of (fact_check, similarity)
    nli_outcomes,       \* what the external classifier answers for item i
    verify_result,      \* what verify_claim_against_evidence did (NoCall before)
    analysis_cache,     \* table analysis_cache: set of rows
    next_rowid,         \* AUTOINCREMENT counter of analysis_cache
    last_put,           \* history: key -> result of the latest cache_analysis
    req,                \* in-flight /analyze requests
    models,             \* nli_model and semantic_model of the module-level EnhancedFactChecker: "loaded" or "None"
    corpus,             \* table fact_checks of the database: its rows in order
    index,              \* SemanticRetriever.index: None or the vectors added
    fact_checks,        \* SemanticRetriever.fact_checks
    index_file,         \* the persisted index (and embeddings) files
    build,              \* a build_index call in progress
    query,              \* a retrieve_similar_claims call, in progress or over
    score_input,        \* arguments of the function under check
    score_result        \* what that function returned (NoCall before)

vars == <<evidence_list, agg_result, evidence_sources, decide_result,
          nli_pipeline, retrieved, nli_outcomes, verify_result,
          analysis_cache, next_rowid, last_put, req, models,
          corpus, index, fact_checks, index_file, build, query,
          score_input, score_result>>

aggVars == <<evidence_list, agg_result, evidence_sources, decide_result>>
verifyVars == <<nli_pipeline, retrieved, nli_outcomes, verify_result>>
cacheVars == <<analysis_cache, next_rowid, last_put, req, models>>
retrieverVars == <<corpus, index, fact_checks, index_file, build, query>>
scoreVars == <<score_input, score_result>>

NoCall == [called |-> FALSE]

\* Python's None
PyNone == [py |-> "NoneType"]

Abs(x) == IF x < 0 THEN -x ELSE x

Min(a, b) == IF a < b THEN a ELSE b

\* num/den > p/q for den # 0 and q > 0, as the float comparison decides it
RatioGt(num, den, p, q) ==
    IF den > 0 THEN num * q > p * den ELSE num * q < p * den

\* |a/den - b/den| < p/q for den # 0 and q > 0
RatioDiffLt(a, b, den, p, q) == Abs(a - b) * q < p * Abs(den)

(***************************************************************************)
(* Bounds and input grids                                                  *)
(***************************************************************************)
MaxEvidence == 3
MaxSources == 3

NliLabels == {"ENTAILMENT", "CONTRADICTION", "NEUTRAL"}
ConfidenceValues == {0, 85, 90}
SimilarityValues == {-50, 0, 50}

EvidenceItems ==
    [nli_label : NliLabels, confidence : ConfidenceValues,
     similarity_score : SimilarityValues]

SeqsUpTo(S, n) == UNION {[1..k -> S] : k \in 0..n}

Stances == {"supports", "supports_safety", "debunks", "questions_safety",
            "contradicts", "neutral", "unrelated"}
CredibilityValues == {0, 85, 90}

SourceItems == [stance : Stances, credibility : CredibilityValues]

(***************************************************************************)
(* NLIVerifier.aggregate_evidence_verdict                                  *)
(***************************************************************************)
\* twice the weight of line 141, in hundredths
Weight2(evidence) == evidence.confidence + evidence.similarity_score

\* the bucket an item's weight is added to (lines 143-148)
Bucket(evidence) ==
    IF evidence.nli_label = "ENTAILMENT" THEN "entailment"
    ELSE IF evidence.nli_label = "CONTRADICTION" THEN "contradiction"
    ELSE "neutral"

RECURSIVE BucketScore(_, _)
BucketScore(list, bucket) ==
    IF list = <<>> THEN 0
    ELSE (IF Bucket(Head(list)) = bucket THEN Weight2(Head(list)) ELSE 0)
         + BucketScore(Tail(list), bucket)

AggReturn(verdict, divided, e, c, n) ==
    [called |-> TRUE, verdict |-> verdict, divided |-> divided,
     raised |-> "none", entailment_score |-> e, contradiction_score |-> c,
     neutral_score |-> n, total_score |-> e + c + n]

\* variants of the if/elif chain below: the two threshold tests in the other
\* order, the higher quotient winning the fall-through, the MIXED test dropped
VerdictFlipped(e, c, t) ==
    IF RatioGt(c, t, 6, 10) THEN "LIKELY_FALSE"
    ELSE IF RatioGt(e, t, 6, 10) THEN "LIKELY_TRUE"
    ELSE IF RatioDiffLt(e, c, t, 2, 10) THEN "MIXED"
    ELSE "UNVERIFIED"

VerdictHigherWins(e, c, t) ==
    IF RatioGt(e, t, 6, 10) THEN "LIKELY_TRUE"
    ELSE IF RatioGt(c, t, 6, 10) THEN "LIKELY_FALSE"
    ELSE IF RatioDiffLt(e, c, t, 2, 10) THEN "MIXED"
    ELSE IF RatioGt(e - c, t, 0, 1) THEN "LIKELY_TRUE"
    ELSE "LIKELY_FALSE"

VerdictNoMixed(e, c, t) ==
    IF RatioGt(e, t, 6, 10) THEN "LIKELY_TRUE"
    ELSE IF RatioGt(c, t, 6, 10) THEN "LIKELY_FALSE"
    ELSE "UNVERIFIED"

\* the if/elif chain of lines 160-171 on entailment_pct and contradiction_pct
DetermineVerdict(e, c, t) ==
    IF RatioGt(e, t, 6, 10) THEN "LIKELY_TRUE"
    ELSE IF RatioGt(c, t, 6, 10) THEN "LIKELY_FALSE"
    ELSE IF RatioDiffLt(e, c, t, 2, 10) THEN "MIXED"
    ELSE "UNVERIFIED"

\* lines 152-157 without the guard of line 152: the division is performed
NormalizeUnguarded(e, c, n) ==
    IF e + c + n = 0
    THEN [AggReturn("none", TRUE, e, c, n) EXCEPT !.raised = "ZeroDivisionError"]
    ELSE AggReturn(DetermineVerdict(e, c, e + c + n), TRUE, e, c, n)

\* lines 150-173: the zero test, the normalisation and the verdict
Normalize(e, c, n) ==
    IF e + c + n = 0 THEN AggReturn("UNVERIFIED", FALSE, e, c, n)
    ELSE AggReturn(DetermineVerdict(e, c, e + c + n), TRUE, e, c, n)

aggregate_evidence_verdict(list) ==
    IF list = <<>> THEN AggReturn("UNVERIFIED", FALSE, 0, 0, 0)
    ELSE Normalize(BucketScore(list, "entailment"),
                   BucketScore(list, "contradiction"),
                   BucketScore(list, "neutral"))

(***************************************************************************)
(* IndustrialFactChecker._compare_against_evidence and ._decide_verdict    *)
(***************************************************************************)
SupportStances == {"supports", "supports_safety"}
ContradictStances == {"debunks", "questions_safety", "contradicts"}

RECURSIVE FilterStance(_, _)
FilterStance(sources, stances) ==
    IF sources = <<>> THEN <<>>
    ELSE (IF Head(sources).stance \in stances THEN <<Head(sources)>> ELSE <<>>)
         \o FilterStance(Tail(sources), stances)

RECURSIVE SumCredibility(_)
SumCredibility(sources) ==
    IF sources = <<>> THEN 0
    ELSE Head(sources).credibility + SumCredibility(Tail(sources))

compare_against_evidence(sources) ==
    LET supporting == FilterStance(sources, SupportStances)
        contradicting == FilterStance(sources, ContradictStances)
        neutral == FilterStance(sources, {"neutral"})
    IN  [supporting_sources |-> supporting,
         contradicting_sources |-> contradicting,
         neutral_sources |-> neutral,
         support_weight |-> SumCredibility(supporting),
         contradict_weight |-> SumCredibility(contradicting),
         neutral_weight |-> SumCredibility(neutral),
         total_sources |-> Len(sources)]

DecideReturn(verdict, divided, cmp) ==
    [called |-> TRUE, verdict |-> verdict, divided |-> divided,
     raised |-> "none",
     support_weight |-> cmp.support_weight,
     contradict_weight |-> cmp.contradict_weight,
     total_weight |-> cmp.support_weight + cmp.contradict_weight
                      + cmp.neutral_weight,
     supporting_count |-> Len(cmp.supporting_sources),
     contradicting_count |-> Len(cmp.contradicting_sources)]

\* lines 614-630 with the gated branches only: what passes no gate is
\* AMBIGUOUS
DecideChainGated(s, c, t, sn, cn) ==
    IF RatioGt(s, t, 7, 10) /\ sn >= 2 /\ s > 150 THEN "TRUE"
    ELSE IF RatioGt(c, t, 7, 10) /\ cn >= 2 /\ c > 150 THEN "FALSE"
    ELSE IF RatioGt(s, t, 6, 10) /\ s > 100 THEN "TRUE"
    ELSE IF RatioGt(c, t, 6, 10) /\ c > 100 THEN "FALSE"
    ELSE "AMBIGUOUS"

\* lines 614-630, for total_weight > 0
DecideChain(s, c, t, sn, cn) ==
    IF RatioGt(s, t, 7, 10) /\ sn >= 2 /\ s > 150 THEN "TRUE"
    ELSE IF RatioGt(c, t, 7, 10) /\ cn >= 2 /\ c > 150 THEN "FALSE"
    ELSE IF RatioGt(s, t, 6, 10) /\ s > 100 THEN "TRUE"
    ELSE IF RatioGt(c, t, 6, 10) /\ c > 100 THEN "FALSE"
    ELSE IF RatioDiffLt(s, c, t, 2, 10) THEN "AMBIGUOUS"
    ELSE IF RatioGt(s - c, t, 0, 1) THEN "TRUE"
    ELSE "FALSE"

decide_verdict(cmp) ==
    LET s == cmp.support_weight
        c == cmp.contradict_weight
        t == s + c + cmp.neutral_weight
    IN  IF t > 0
        THEN DecideReturn(DecideChain(s, c, t, Len(cmp.supporting_sources),
                                      Len(cmp.contradicting_sources)), TRUE, cmp)
        ELSE DecideReturn("AMBIGUOUS", FALSE, cmp)

(***************************************************************************)
(* Aggregation: the two pure functions applied to bounded inputs           *)
(***************************************************************************)
IdleVerify ==
    /\ nli_pipeline = "None"
    /\ retrieved = <<>>
    /\ nli_outcomes = <<>>
    /\ verify_result = NoCall

IdleCache ==
    /\ analysis_cache = {}
    /\ next_rowid = 1
    /\ last_put = <<>>
    /\ req = <<>>
    /\ models = "None"

\* no index file on disk, no build_index call in progress
NoFile == [exists |-> FALSE]
NoBuild == [pc |-> "idle"]

\* SemanticRetriever.__init__ , lines 28-29, over the rows the database holds
InitRetriever(rows) ==
    /\ corpus = rows
    /\ index = PyNone
    /\ fact_checks = <<>>
    /\ index_file = NoFile
    /\ build = NoBuild
    /\ query = NoCall

IdleRetriever == InitRetriever(<<>>)

IdleScore ==
    /\ score_input = <<>>
    /\ score_result = NoCall

InitAggregate ==
    /\ \/ /\ evidence_list \in SeqsUpTo(EvidenceItems, MaxEvidence)
          /\ evidence_sources = <<>>
       \/ /\ evidence_list = <<>>
          /\ evidence_sources \in SeqsUpTo(SourceItems, MaxSources)
    /\ agg_result = NoCall
    /\ decide_result = NoCall
    /\ IdleVerify
    /\ IdleCache
    /\ IdleRetriever
    /\ IdleScore

\* each behaviour exercises one of the two functions: the other's argument
\* stays the empty list
AggregateEvidenceVerdict ==
    /\ evidence_sources = <<>>
    /\ agg_result' = aggregate_evidence_verdict(evidence_list)
    /\ UNCHANGED <<evidence_list, evidence_sources, decide_result>>
    /\ UNCHANGED <<verifyVars, cacheVars, retrieverVars, scoreVars>>

DecideVerdict ==
    /\ evidence_list = <<>>
    /\ decide_result' = decide_verdict(compare_against_evidence(evidence_sources))
    /\ UNCHANGED <<evidence_list, evidence_sources, agg_result>>
    /\ UNCHANGED <<verifyVars, cacheVars, retrieverVars, scoreVars>>

NextAggregate == AggregateEvidenceVerdict \/ DecideVerdict

SpecAggregate == InitAggregate /\ [][NextAggregate]_vars

\* the quotients of lines 156-157 and 610-611 compared with the thresholds
EntailmentOver == RatioGt(agg_result.entailment_score, agg_result.total_score, 6, 10)
ContradictionOver == RatioGt(agg_result.contradiction_score, agg_result.total_score, 6, 10)
AggClose ==
    RatioDiffLt(agg_result.entailment_score, agg_result.contradiction_score,
                agg_result.total_score, 2, 10)
AggCalled == agg_result.called /\ agg_result.total_score # 0

SupportOver == RatioGt(decide_result.support_weight, decide_result.total_weight, 6, 10)
ContradictOver == RatioGt(decide_result.contradict_weight, decide_result.total_weight, 6, 10)
DecideClose ==
    RatioDiffLt(decide_result.support_weight, decide_result.contradict_weight,
                decide_result.total_weight, 2, 10)
DecideCalled == decide_result.called /\ decide_result.total_weight > 0

\* C1: aggregate_evidence_verdict on a list of non-zero total weight returns
\* LIKELY_TRUE when entailment_pct > 0.6, otherwise LIKELY_FALSE when
\* contradiction_pct > 0.6, and returns MIXED or the fall-through verdict
\* only when neither quotient exceeds 0.6.
C1_ThresholdOrder ==
    AggCalled =>
        /\ EntailmentOver => agg_result.verdict = "LIKELY_TRUE"
        /\ (~EntailmentOver /\ ContradictionOver) => agg_result.verdict = "LIKELY_FALSE"
        /\ agg_result.verdict \in {"MIXED", "UNVERIFIED"}
              => (~EntailmentOver /\ ~ContradictionOver)

\* both quotients exceed 0.6 (the total is negative) and the first test won
C1_Witness ==
    /\ AggCalled
    /\ EntailmentOver
    /\ ContradictionOver
    /\ agg_result.verdict = "LIKELY_TRUE"

\* C2 as stated: in the fall-through of aggregate_evidence_verdict (neither
\* quotient over 0.6, their distance at least 0.2) the higher quotient wins.
C2_HigherRatioWins ==
    (AggCalled /\ ~EntailmentOver /\ ~ContradictionOver /\ ~AggClose) =>
        agg_result.verdict =
            IF RatioGt(agg_result.entailment_score - agg_result.contradiction_score,
                       agg_result.total_score, 0, 1)
            THEN "LIKELY_TRUE" ELSE "LIKELY_FALSE"

\* C2 amended: in that fall-through aggregate_evidence_verdict returns
\* UNVERIFIED whichever quotient is higher; the higher ratio wins only in
\* _decide_verdict (TRUE if support_ratio > contradict_ratio, else FALSE).
C2_FallThrough ==
    /\ (AggCalled /\ ~EntailmentOver /\ ~ContradictionOver /\ ~AggClose) =>
           agg_result.verdict = "UNVERIFIED"
    /\ (DecideCalled /\ ~SupportOver /\ ~ContradictOver /\ ~DecideClose) =>
           decide_result.verdict =
               IF decide_result.support_weight > decide_result.contradict_weight
               THEN "TRUE" ELSE "FALSE"

\* the fall-through is taken with non-negative weights and entailment ahead
C2_Witness ==
    /\ AggCalled /\ ~EntailmentOver /\ ~ContradictionOver /\ ~AggClose
    /\ agg_result.total_score > 0
    /\ agg_result.entailment_score > agg_result.contradiction_score
    /\ agg_result.contradiction_score >= 0
    /\ agg_result.verdict = "UNVERIFIED"

ScenarioB_Evidence ==
    << [nli_label |-> "ENTAILMENT", confidence |-> 90, similarity_score |-> 0],
       [nli_label |-> "CONTRADICTION", confidence |-> 85, similarity_score |-> 0] >>

ScenarioB_Sources ==
    << [stance |-> "supports", credibility |-> 90],
       [stance |-> "contradicts", credibility |-> 85] >>

\* C3: when neither quotient exceeds 0.6 and they are less than 0.2 apart,
\* aggregate_evidence_verdict returns MIXED and _decide_verdict returns
\* AMBIGUOUS; so do they on one SUPPORT item (reliability 90, confidence
\* 0.9) with one CONTRADICT item (reliability 85, confidence 0.85), the
\* similarity of supplied evidence being 0.
C3_MixedWhenClose ==
    /\ (AggCalled /\ ~EntailmentOver /\ ~ContradictionOver /\ AggClose) =>
           agg_result.verdict = "MIXED"
    /\ (DecideCalled /\ ~SupportOver /\ ~ContradictOver /\ DecideClose) =>
           decide_result.verdict = "AMBIGUOUS"
    /\ (agg_result.called /\ evidence_list = ScenarioB_Evidence) =>
           agg_result.verdict = "MIXED"
    /\ (decide_result.called /\ evidence_sources = ScenarioB_Sources) =>
           decide_result.verdict = "AMBIGUOUS"

\* the two-item scenario went through aggregate_evidence_verdict
C3_Witness ==
    /\ agg_result.called
    /\ evidence_list = ScenarioB_Evidence
    /\ ~EntailmentOver /\ ~ContradictionOver /\ AggClose
    /\ agg_result.verdict = "MIXED"

\* C4: on an evidence list whose total weight is zero, empty or not,
\* aggregate_evidence_verdict returns UNVERIFIED and _decide_verdict returns
\* AMBIGUOUS, neither dividing by the total nor raising.
C4_ZeroTotal ==
    /\ (agg_result.called /\ agg_result.total_score = 0) =>
           /\ agg_result.verdict = "UNVERIFIED"
           /\ ~agg_result.divided
           /\ agg_result.raised = "none"
    /\ (decide_result.called /\ decide_result.total_weight = 0) =>
           /\ decide_result.verdict = "AMBIGUOUS"
           /\ ~decide_result.divided
           /\ decide_result.raised = "none"

\* a non-empty list whose weights cancel was aggregated
C4_Witness ==
    /\ agg_result.called
    /\ Len(evidence_list) >= 2
    /\ agg_result.entailment_score # 0
    /\ agg_result.total_score = 0
    /\ agg_result.verdict = "UNVERIFIED"

\* C5 as stated: every item's weight lies in [0,1], so the per-stance sums
\* are non-negative and, for a non-zero total, entailment_pct and
\* contradiction_pct lie in [0,1] with a sum of at most 1.
C5_WeightsClamped ==
    agg_result.called =>
        /\ \A i \in 1..Len(evidence_list) :
               Weight2(evidence_list[i]) >= 0 /\ Weight2(evidence_list[i]) <= 200
        /\ agg_result.entailment_score >= 0
        /\ agg_result.contradiction_score >= 0
        /\ agg_result.neutral_score >= 0
        /\ agg_result.total_score # 0 =>
               /\ ~RatioGt(0, 1, agg_result.entailment_score, agg_result.total_score)
               /\ ~RatioGt(agg_result.entailment_score, agg_result.total_score, 1, 1)
               /\ ~RatioGt(0, 1, agg_result.contradiction_score, agg_result.total_score)
               /\ ~RatioGt(agg_result.contradiction_score, agg_result.total_score, 1, 1)
               /\ ~RatioGt(agg_result.entailment_score + agg_result.contradiction_score,
                           agg_result.total_score, 1, 1)

(***************************************************************************)
(* Stance classification: NLIVerifier.verify_claim_against_evidence and    *)
(* ._fallback_verification, with the Evidence model they construct         *)
(***************************************************************************)
MaxRetrieved == 2

\* FactCheck.verdict as stored, in either case; str.upper() on it
StoredVerdicts == {"TRUE", "false", "MIXED"}
Upper(verdict) ==
    CASE verdict = "true" -> "TRUE"
      [] verdict = "false" -> "FALSE"
      [] verdict = "ambiguous" -> "AMBIGUOUS"
      [] verdict = "mixed" -> "MIXED"
      [] verdict = "Likely_True" -> "LIKELY_TRUE"
      [] verdict = "likely_false" -> "LIKELY_FALSE"
      [] verdict = "unverified" -> "UNVERIFIED"
      [] OTHER -> verdict

RetrievedSimilarities == {-100, 0, 75}

FactChecks ==
    [verdict : StoredVerdicts, explanation : {"explanation"},
     source : {"source"}, source_url : {"url"}]

RetrievedItems == [fact_check : FactChecks, similarity_score : RetrievedSimilarities]

\* what the zero-shot pipeline does on one call: it raises, or it answers
\* with its best label and that label's score (a probability, in hundredths)
PipelineOutcomes ==
    {[raises |-> TRUE]} \cup
    [raises : {FALSE},
     label : {"ENTAILMENT", "CONTRADICTION", "fact_check.claim"},
     score : {95}]

\* models.claim.Evidence: the declared fields, and those without a default
EvidenceFields ==
    {"text", "source", "url", "type", "reliability_score", "date", "region",
     "verification_method"}
EvidenceRequired == {"text", "source", "type", "reliability_score", "verification_method"}

\* Evidence(**kwargs): a pydantic model raises ValidationError when a field
\* without a default is missing, and drops the keywords it does not declare
Evidence(kwargs) ==
    IF EvidenceRequired \subseteq DOMAIN kwargs
    THEN [ok |-> TRUE,
          value |-> [f \in (DOMAIN kwargs) \cap EvidenceFields |-> kwargs[f]]]
    ELSE [ok |-> FALSE, raised |-> "ValidationError"]

EvidenceKwargs(fact_check, nli_label, confidence, similarity_score) ==
    [text |-> fact_check.explanation, source |-> fact_check.source,
     url |-> fact_check.source_url, nli_label |-> nli_label,
     confidence |-> confidence, similarity_score |-> similarity_score]

\* lines 106-124: the keywords the fallback gives the constructor
FallbackKwargs(fact_check, similarity_score) ==
    IF Upper(fact_check.verdict) = "TRUE"
    THEN EvidenceKwargs(fact_check, "ENTAILMENT",
                        Min(80, similarity_score + 10), similarity_score)
    ELSE IF Upper(fact_check.verdict) = "FALSE"
    THEN EvidenceKwargs(fact_check, "CONTRADICTION",
                        Min(80, similarity_score + 10), similarity_score)
    ELSE EvidenceKwargs(fact_check, "NEUTRAL", similarity_score, similarity_score)

VerifyReturn(list, calls) ==
    [called |-> TRUE, raised |-> "none", evidence_list |-> list, ctor_calls |-> calls]

VerifyRaise(exc, calls) ==
    [called |-> TRUE, raised |-> exc, evidence_list |-> <<>>, ctor_calls |-> calls]

\* the loop of lines 105-126; nothing catches what the constructor raises
RECURSIVE FallbackLoop(_, _, _)
FallbackLoop(rest, list, calls) ==
    IF rest = <<>> THEN VerifyReturn(list, calls)
    ELSE LET kwargs == FallbackKwargs(Head(rest).fact_check, Head(rest).similarity_score)
             made == Evidence(kwargs)
         IN  IF made.ok
             THEN FallbackLoop(Tail(rest), Append(list, made.value), Append(calls, kwargs))
             ELSE VerifyRaise(made.raised, Append(calls, kwargs))

fallback_verification(retrieved_fact_checks) ==
    FallbackLoop(retrieved_fact_checks, <<>>, <<>>)

\* label_mapping.get(primary_label, "NEUTRAL"), lines 58-68
MapLabel(primary_label) ==
    IF primary_label \in NliLabels THEN primary_label ELSE "NEUTRAL"

\* lines 84-93: the except branch of one iteration
ExceptKwargs(fact_check, similarity_score) ==
    EvidenceKwargs(fact_check, "NEUTRAL", 50, similarity_score)

\* the loop of lines 48-93: the try body calls the pipeline and constructs
\* the item; whatever it raises lands in the except branch, whose own
\* constructor call is not guarded
RECURSIVE VerifyLoop(_, _, _, _)
VerifyLoop(rest, outcomes, list, calls) ==
    IF rest = <<>> THEN VerifyReturn(list, calls)
    ELSE LET fc == Head(rest).fact_check
             sim == Head(rest).similarity_score
             out == Head(outcomes)
             tryKw == EvidenceKwargs(fc, MapLabel(out.label), out.score, sim)
             tried == Evidence(tryKw)
             excKw == ExceptKwargs(fc, sim)
             fell == Evidence(excKw)
             callsTry == IF out.raises THEN calls ELSE Append(calls, tryKw)
         IN  IF ~out.raises /\ tried.ok
             THEN VerifyLoop(Tail(rest), Tail(outcomes),
                             Append(list, tried.value), callsTry)
             ELSE IF fell.ok
             THEN VerifyLoop(Tail(rest), Tail(outcomes),
                             Append(list, fell.value), Append(callsTry, excKw))
             ELSE VerifyRaise(fell.raised, Append(callsTry, excKw))

verify_claim_against_evidence(pipeline, retrieved_fact_checks, outcomes) ==
    IF pipeline = "None" THEN fallback_verification(retrieved_fact_checks)
    ELSE VerifyLoop(retrieved_fact_checks, outcomes, <<>>, <<>>)

IdleAggregate ==
    /\ evidence_list = <<>>
    /\ agg_result = NoCall
    /\ evidence_sources = <<>>
    /\ decide_result = NoCall

InitVerify ==
    /\ retrieved \in SeqsUpTo(RetrievedItems, MaxRetrieved)
    /\ \/ nli_pipeline = "None" /\ nli_outcomes = <<>>
       \/ nli_pipeline = "loaded"
          /\ nli_outcomes \in [1..Len(retrieved) -> PipelineOutcomes]
    /\ verify_result = NoCall
    /\ IdleAggregate
    /\ IdleCache
    /\ IdleRetriever
    /\ IdleScore

VerifyClaimAgainstEvidence ==
    /\ verify_result' =
           verify_claim_against_evidence(nli_pipeline, retrieved, nli_outcomes)
    /\ UNCHANGED <<nli_pipeline, retrieved, nli_outcomes>>
    /\ UNCHANGED <<aggVars, cacheVars, retrieverVars, scoreVars>>

NextVerify == VerifyClaimAgainstEvidence

SpecVerify == InitVerify /\ [][NextVerify]_vars

\* the item the heuristic of _fallback_verification builds for record i
FallbackLabelOf(i) ==
    IF Upper(retrieved[i].fact_check.verdict) = "TRUE" THEN "ENTAILMENT"
    ELSE IF Upper(retrieved[i].fact_check.verdict) = "FALSE" THEN "CONTRADICTION"
    ELSE "NEUTRAL"

HasStance(item, label) ==
    /\ "nli_label" \in DOMAIN item
    /\ item.nli_label = label

\* C6 as stated: without the classifier, verify_claim_against_evidence
\* returns one item per retrieved record, in order, labelled from the
\* record's stored verdict (TRUE: ENTAILMENT, FALSE: CONTRADICTION, else
\* NEUTRAL), with confidence min(0.8, similarity + 0.1) for the first two.
C6_FallbackLabels ==
    (verify_result.called /\ nli_pipeline = "None") =>
        /\ verify_result.raised = "none"
        /\ Len(verify_result.evidence_list) = Len(retrieved)
        /\ \A i \in 1..Len(verify_result.evidence_list) :
               /\ HasStance(verify_result.evidence_list[i], FallbackLabelOf(i))
               /\ FallbackLabelOf(i) # "NEUTRAL" =>
                      verify_result.evidence_list[i].confidence =
                          Min(80, retrieved[i].similarity_score + 10)

\* C7 as stated: every evidence item that stance classification builds,
\* by the classifier, by the fallback or by the per-item error branch, is
\* given a confidence in [0,1].
C7_ConfidenceInRange ==
    verify_result.called =>
        \A i \in 1..Len(verify_result.ctor_calls) :
            /\ verify_result.ctor_calls[i].confidence >= 0
            /\ verify_result.ctor_calls[i].confidence <= 100

\* C8 as stated: with the classifier loaded, a call returns one item per
\* retrieved record and raises nothing; the item of a record on which the
\* classifier raised carries the heuristic stance of that record, every
\* other item the stance the classifier gave it.
C8_PerItemRecovery ==
    (verify_result.called /\ nli_pipeline = "loaded") =>
        /\ verify_result.raised = "none"
        /\ Len(verify_result.evidence_list) = Len(retrieved)
        /\ \A i \in 1..Len(verify_result.evidence_list) :
               IF nli_outcomes[i].raises
               THEN HasStance(verify_result.evidence_list[i], FallbackLabelOf(i))
               ELSE HasStance(verify_result.evidence_list[i],
                              MapLabel(nli_outcomes[i].label))

(***************************************************************************)
(* SemanticRetriever: the index, its build, its load and the search.       *)
(* A row of table fact_checks is <<id, claim>>; the claim texts of a       *)
(* corpus are distinct.  The embedding of a text, once normalised, is a    *)
(* unit vector named after the text; the inner product of two unit vectors *)
(* is a cosine, kept in hundredths.                                        *)
(***************************************************************************)
MaxCorpus == 2
MaxTopK == 3

ClaimTexts == {"claim_1", "claim_2", "claim_3"}
QueryTexts == {"query_a", "query_b"}

\* FactCheck(id=row[0], claim=row[1], ...) for each row of SELECT *
FactCheck(row) == [id |-> row[1], claim |-> row[2]]

get_all_fact_checks(rows) == [i \in 1..Len(rows) |-> FactCheck(rows[i])]

\* model.encode followed by faiss.normalize_L2
Embedding(text) == [unit_vector_of |-> text]

encode(texts) == [i \in 1..Len(texts) |-> Embedding(texts[i])]

get_embedding(text) == Embedding(text)

\* the inner product IndexFlatIP computes between two unit vectors
InnerProduct(u, v) ==
    LET a == u.unit_vector_of
        b == v.unit_vector_of
    IN  IF a = b THEN 100
        ELSE IF {a, b} = {"query_a", "claim_1"} THEN 90
        ELSE IF {a, b} = {"query_a", "claim_2"} THEN 40
        ELSE IF {a, b} = {"query_a", "claim_3"} THEN -30
        ELSE IF {a, b} = {"query_b", "claim_1"} THEN -100
        ELSE IF {a, b} = {"query_b", "claim_2"} THEN 0
        ELSE IF {a, b} = {"query_b", "claim_3"} THEN 75
        ELSE 10

\* what search writes into a slot it cannot fill: label -1 and the lowest
\* float32, -3.4e38; any number below -100 stands for that score here
UnfilledScore == -1000000

IndexFlatIP(vectors) == [py |-> "IndexFlatIP", vectors |-> vectors]

IndexFile(vectors) == [exists |-> TRUE, vectors |-> vectors]

\* the attributes of the retriever and the files, as one value
Self == [index |-> index, fact_checks |-> fact_checks, index_file |-> index_file]

\* build_index, statement by statement
BuildFetch(self, rows) == [self EXCEPT !.fact_checks = get_all_fact_checks(rows)]

BuildEncode(self) ==
    encode([i \in 1..Len(self.fact_checks) |-> self.fact_checks[i].claim])

BuildCreate(self) == [self EXCEPT !.index = IndexFlatIP(<<>>)]

BuildAdd(self, embeddings) ==
    [self EXCEPT !.index = IndexFlatIP(self.index.vectors \o embeddings)]

BuildSave(self) == [self EXCEPT !.index_file = IndexFile(self.index.vectors)]

build_index(self, rows) ==
    LET fetched == BuildFetch(self, rows)
    IN  IF fetched.fact_checks = <<>> THEN fetched
        ELSE BuildSave(BuildAdd(BuildCreate(fetched), BuildEncode(fetched)))

load_index(self, rows) ==
    [self EXCEPT !.index = IndexFlatIP(self.index_file.vectors),
                 !.fact_checks = get_all_fact_checks(rows)]

load_or_build_index(self, rows) ==
    IF self.index_file.exists THEN load_index(self, rows)
    ELSE build_index(self, rows)

\* index.search(query, k): the k best inner products in descending order,
\* each with the position of its vector (from 0); slots beyond the number
\* of stored vectors are unfilled
RECURSIVE SearchFrom(_, _, _, _)
SearchFrom(vectors, qv, k, rest) ==
    IF k = 0 THEN <<>>
    ELSE IF rest = {}
    THEN <<[score |-> UnfilledScore, idx |-> -1]>> \o SearchFrom(vectors, qv, k - 1, rest)
    ELSE LET best == CHOOSE i \in rest : \A j \in rest :
                         \/ InnerProduct(qv, vectors[i + 1]) > InnerProduct(qv, vectors[j + 1])
                         \/ /\ InnerProduct(qv, vectors[i + 1]) = InnerProduct(qv, vectors[j + 1])
                            /\ i <= j
         IN  <<[score |-> InnerProduct(qv, vectors[best + 1]), idx |-> best]>>
                 \o SearchFrom(vectors, qv, k - 1, rest \ {best})

Search(ix, qv, k) == SearchFrom(ix.vectors, qv, k, 0..(Len(ix.vectors) - 1))

\* list[idx] of Python for idx >= -len(list): a negative idx counts from the end
PyIndex(list, idx) == IF idx >= 0 THEN list[idx + 1] ELSE list[Len(list) + idx + 1]

\* lines 105-111: the loop over the hits
RECURSIVE CollectLoop(_, _, _)
CollectLoop(hits, records, results) ==
    IF hits = <<>> THEN [raised |-> "none", results |-> results]
    ELSE IF Head(hits).idx < Len(records)
    THEN IF Head(hits).idx < -Len(records)
         THEN [raised |-> "IndexError", results |-> results]
         ELSE CollectLoop(Tail(hits), records,
                          Append(results, [fact_check |-> PyIndex(records, Head(hits).idx),
                                           score |-> Head(hits).score]))
    ELSE CollectLoop(Tail(hits), records, results)

\* line 92 with the second test left out
NoIndexOnly(self) == self.index = PyNone

\* line 92: nothing to search
NoIndexOrRecords(self) == self.index = PyNone \/ Len(self.fact_checks) = 0

\* retrieve_similar_claims: what it leaves in the retriever and what it
\* returns or raises
retrieve_similar_claims(self, rows, text, top_k) ==
    LET ready == IF self.index = PyNone THEN load_or_build_index(self, rows) ELSE self
        out == IF NoIndexOrRecords(ready) THEN [raised |-> "none", results |-> <<>>]
               ELSE CollectLoop(Search(ready.index, get_embedding(text), top_k),
                                ready.fact_checks, <<>>)
    IN  [called |-> TRUE, pc |-> "done", text |-> text, top_k |-> top_k,
         before |-> [index |-> self.index, fact_checks |-> self.fact_checks],
         after |-> [index |-> ready.index, fact_checks |-> ready.fact_checks],
         index_file |-> ready.index_file,
         raised |-> out.raised, results |-> out.results]

\* the rows of a corpus hold distinct claim texts
CorpusTexts == {corpus[i][2] : i \in 1..Len(corpus)}

\* insert_fact_check: one more row, with the next id
InsertFactCheck ==
    /\ Len(corpus) < MaxCorpus
    /\ build = NoBuild /\ query = NoCall
    /\ \E text \in ClaimTexts \ CorpusTexts :
           corpus' = Append(corpus, <<Len(corpus) + 1, text>>)
    /\ UNCHANGED <<index, fact_checks, index_file, build, query>>
    /\ UNCHANGED <<aggVars, verifyVars, cacheVars, scoreVars>>

\* the database file is replaced by a fresh one: init_db creates the tables
\* anew and fact_checks is empty
ResetCorpus ==
    /\ corpus # <<>>
    /\ build = NoBuild /\ query = NoCall
    /\ corpus' = <<>>
    /\ UNCHANGED <<index, fact_checks, index_file, build, query>>
    /\ UNCHANGED <<aggVars, verifyVars, cacheVars, scoreVars>>

\* the process is started again: a new SemanticRetriever, the files stay
Restart ==
    /\ build = NoBuild /\ query = NoCall
    /\ index # PyNone \/ fact_checks # <<>>
    /\ index' = PyNone
    /\ fact_checks' = <<>>
    /\ UNCHANGED <<corpus, index_file, build, query>>
    /\ UNCHANGED <<aggVars, verifyVars, cacheVars, scoreVars>>

\* a rebuild that also empties table analysis_cache
RebuildIndexClearingCache ==
    /\ build = NoBuild /\ query = NoCall
    /\ LET built == build_index(Self, corpus)
       IN  /\ index' = built.index
           /\ fact_checks' = built.fact_checks
           /\ index_file' = built.index_file
    /\ analysis_cache' = {}
    /\ UNCHANGED <<corpus, build, query, next_rowid, last_put, req, models>>
    /\ UNCHANGED <<aggVars, verifyVars, scoreVars>>

\* POST /rebuild-index: build_index from its first to its last statement
RebuildIndex ==
    /\ build = NoBuild /\ query = NoCall
    /\ LET built == build_index(Self, corpus)
       IN  /\ index' = built.index
           /\ fact_checks' = built.fact_checks
           /\ index_file' = built.index_file
    /\ UNCHANGED <<corpus, build, query>>
    /\ UNCHANGED <<aggVars, verifyVars, cacheVars, scoreVars>>

\* one call of retrieve_similar_claims, from its first to its last statement
RetrieveSimilarClaims ==
    \E text \in QueryTexts, top_k \in 1..MaxTopK :
        /\ build = NoBuild /\ query = NoCall
        /\ LET call == retrieve_similar_claims(Self, corpus, text, top_k)
           IN  /\ query' = call
               /\ index' = call.after.index
               /\ fact_checks' = call.after.fact_checks
               /\ index_file' = call.index_file
        /\ UNCHANGED <<corpus, build>>
        /\ UNCHANGED <<aggVars, verifyVars, cacheVars, scoreVars>>

\* the caller is done with what the call returned
QueryFinish ==
    /\ query # NoCall /\ query.pc = "done"
    /\ query' = NoCall
    /\ UNCHANGED <<corpus, index, fact_checks, index_file, build>>
    /\ UNCHANGED <<aggVars, verifyVars, cacheVars, scoreVars>>

InitRetrieval ==
    /\ InitRetriever(<<>>)
    /\ IdleAggregate
    /\ IdleVerify
    /\ IdleCache
    /\ IdleScore

NextRetriever ==
    \/ InsertFactCheck
    \/ ResetCorpus
    \/ Restart
    \/ RebuildIndex
    \/ RetrieveSimilarClaims
    \/ QueryFinish

SpecRetriever == InitRetrieval /\ [][NextRetriever]_vars

\* the index of the pair holds exactly the embeddings of the pair's records,
\* in their order
IndexMatchesRecords(pair) ==
    /\ pair.index # PyNone
    /\ Len(pair.index.vectors) = Len(pair.fact_checks)
    /\ \A i \in 1..Len(pair.fact_checks) :
           pair.index.vectors[i] = Embedding(pair.fact_checks[i].claim)

ReturnedRecords == {query.results[i].fact_check : i \in 1..Len(query.results)}

\* C14 as stated: a call made while the index is missing (before any build
\* or load) or while fact_checks is empty (after a build over an empty
\* corpus) raises nothing and returns the empty list.
C14_EmptyListWithoutIndex ==
    (query # NoCall /\ NoIndexOrRecords(query.before)) =>
        /\ query.raised = "none"
        /\ query.results = <<>>

\* C14, amended: no call raises; a call made while the index is missing
\* first loads or builds it; the call returns the empty list whenever the
\* index is still missing or fact_checks is empty after that, which covers
\* every call made on an existing index after a build over an empty corpus.
C14_NeverRaises ==
    query # NoCall =>
        /\ query.raised = "none"
        /\ NoIndexOrRecords(query.after) => query.results = <<>>
        /\ (query.before.index # PyNone /\ query.before.fact_checks = <<>>)
               => query.results = <<>>
        /\ query.before.index # PyNone => query.after = query.before

\* an index with vectors existed, the corpus was emptied and rebuilt, and a
\* call asking for more hits than the old index holds returned the empty list
C14_Witness ==
    /\ query # NoCall
    /\ query.before.index # PyNone
    /\ query.before.index.vectors # <<>>
    /\ query.before.fact_checks = <<>>
    /\ query.top_k > Len(query.before.index.vectors)
    /\ query.raised = "none"
    /\ query.results = <<>>

\* C15 as stated: on an index built over n records, a call with k >= n
\* returns the n records, each once, with scores in [-1, 1]; a call with
\* k < n returns k distinct records.
C15_TopK ==
    (query # NoCall /\ IndexMatchesRecords(query.after)
                    /\ query.after.fact_checks # <<>>) =>
        LET records == {query.after.fact_checks[i] :
                            i \in 1..Len(query.after.fact_checks)}
            n == Len(query.after.fact_checks)
        IN  /\ query.raised = "none"
            /\ Cardinality(ReturnedRecords) = Len(query.results)
            /\ IF query.top_k >= n
               THEN /\ ReturnedRecords = records
                    /\ \A i \in 1..Len(query.results) :
                           /\ query.results[i].score >= -100
                           /\ query.results[i].score <= 100
               ELSE /\ Len(query.results) = query.top_k
                    /\ ReturnedRecords \subseteq records

\* C16 as stated: when a call had to run load_or_build_index, the index it
\* leaves has one vector per record of fact_checks, vector i being the
\* embedding of record i, whether the index was loaded or built.
C16_IndexMatchesRecords ==
    (query # NoCall /\ query.before.index = PyNone) =>
        IF query.after.index = PyNone THEN query.after.fact_checks = <<>>
        ELSE IndexMatchesRecords(query.after)

(***************************************************************************)
(* A retrieve_similar_claims call running while build_index runs: neither  *)
(* takes a lock, so the statements of the two interleave.  At most one     *)
(* build_index runs at a time.                                             *)
(***************************************************************************)
PairOf(self) == [index |-> self.index, fact_checks |-> self.fact_checks]

QueryInFlight == query # NoCall /\ query.pc \in {"guarded", "searched"}

\* build_index, lines 47-54: fact_checks is replaced; an empty corpus ends
\* the call.  old and new record the pair before the call and the pair the
\* call leaves when it is over.
BuildIndexFetch ==
    /\ build = NoBuild
    /\ LET fetched == BuildFetch(Self, corpus)
           done == PairOf(build_index(Self, corpus))
       IN  /\ fact_checks' = fetched.fact_checks
           /\ build' = IF fetched.fact_checks = <<>> THEN NoBuild
                       ELSE [pc |-> "fetched", old |-> PairOf(Self), new |-> done]
           /\ query' = IF QueryInFlight
                       THEN [query EXCEPT !.allowed = @ \cup {done}]
                       ELSE query
    /\ UNCHANGED <<corpus, index, index_file>>
    /\ UNCHANGED <<aggVars, verifyVars, cacheVars, scoreVars>>

\* lines 56-62: the embeddings are computed and a new, empty index replaces
\* the old one
BuildIndexCreate ==
    /\ build # NoBuild /\ build.pc = "fetched"
    /\ index' = BuildCreate(Self).index
    /\ build' = [pc |-> "created", old |-> build.old, new |-> build.new,
                 embeddings |-> BuildEncode(Self)]
    /\ UNCHANGED <<corpus, fact_checks, index_file, query>>
    /\ UNCHANGED <<aggVars, verifyVars, cacheVars, scoreVars>>

\* lines 64-68: the vectors are added to the index
BuildIndexAdd ==
    /\ build # NoBuild /\ build.pc = "created"
    /\ index' = BuildAdd(Self, build.embeddings).index
    /\ build' = [pc |-> "added", old |-> build.old, new |-> build.new]
    /\ UNCHANGED <<corpus, fact_checks, index_file, query>>
    /\ UNCHANGED <<aggVars, verifyVars, cacheVars, scoreVars>>

\* lines 70-75: the files are written and the call returns
BuildIndexSave ==
    /\ build # NoBuild /\ build.pc = "added"
    /\ index_file' = BuildSave(Self).index_file
    /\ build' = NoBuild
    /\ UNCHANGED <<corpus, index, fact_checks, query>>
    /\ UNCHANGED <<aggVars, verifyVars, cacheVars, scoreVars>>

\* retrieve_similar_claims, lines 89-93: a missing index is loaded or built
\* first (only while no build_index runs); allowed holds the pairs a call
\* may see: the pair of the moment when no build runs, else the pair before
\* the running build and the pair after it
QueryGuard ==
    \E text \in QueryTexts, top_k \in 1..MaxTopK :
        /\ query = NoCall
        /\ index = PyNone => build = NoBuild
        /\ LET ready == IF index = PyNone THEN load_or_build_index(Self, corpus)
                        ELSE Self
           IN  /\ index' = ready.index
               /\ fact_checks' = ready.fact_checks
               /\ index_file' = ready.index_file
               /\ query' = [called |-> TRUE,
                            pc |-> IF NoIndexOrRecords(ready) THEN "done" ELSE "guarded",
                            text |-> text, top_k |-> top_k,
                            searched |-> FALSE,
                            allowed |-> IF build = NoBuild THEN {PairOf(ready)}
                                        ELSE {build.old, build.new},
                            raised |-> "none", results |-> <<>>]
        /\ UNCHANGED <<corpus, build>>
        /\ UNCHANGED <<aggVars, verifyVars, cacheVars, scoreVars>>

\* lines 95-102: the search reads the index
QuerySearch ==
    /\ query # NoCall /\ query.pc = "guarded"
    /\ query' = [called |-> TRUE, pc |-> "searched",
                 text |-> query.text, top_k |-> query.top_k,
                 searched |-> TRUE, allowed |-> query.allowed,
                 seen_index |-> index,
                 hits |-> Search(index, get_embedding(query.text), query.top_k),
                 raised |-> "none", results |-> <<>>]
    /\ UNCHANGED <<corpus, index, fact_checks, index_file, build>>
    /\ UNCHANGED <<aggVars, verifyVars, cacheVars, scoreVars>>

\* lines 104-111: the loop reads fact_checks
QueryCollect ==
    /\ query # NoCall /\ query.pc = "searched"
    /\ LET out == CollectLoop(query.hits, fact_checks, <<>>)
       IN  query' = [called |-> TRUE, pc |-> "done",
                     text |-> query.text, top_k |-> query.top_k,
                     searched |-> TRUE, allowed |-> query.allowed,
                     seen_index |-> query.seen_index,
                     seen_fact_checks |-> fact_checks,
                     raised |-> out.raised, results |-> out.results]
    /\ UNCHANGED <<corpus, index, fact_checks, index_file, build>>
    /\ UNCHANGED <<aggVars, verifyVars, cacheVars, scoreVars>>

NextConcurrent ==
    \/ InsertFactCheck
    \/ ResetCorpus
    \/ BuildIndexFetch
    \/ BuildIndexCreate
    \/ BuildIndexAdd
    \/ BuildIndexSave
    \/ QueryGuard
    \/ QuerySearch
    \/ QueryCollect
    \/ QueryFinish

SpecConcurrent == InitRetrieval /\ [][NextConcurrent]_vars

\* C17 as stated: a call that searched saw a pair (index, fact_checks) that
\* is either the pair before a build_index running meanwhile or the pair
\* after it, never a mixture and never an index still without its vectors.
C17_OldOrNewPair ==
    (query # NoCall /\ query.pc = "done" /\ query.searched) =>
        /\ query.raised = "none"
        /\ [index |-> query.seen_index, fact_checks |-> query.seen_fact_checks]
               \in query.allowed

(***************************************************************************)
(* The analysis cache: Database.cache_analysis / get_cached_analysis on    *)
(* the analysis_cache table, and the /analyze handler that uses them       *)
(***************************************************************************)
MaxRowId == 3
NumRequests == 2

Keys == {"hash_a", "hash_b"}

\* Python values that occur in ClaimAnalysis.dict(): members of the str enum
\* VerificationStatus, and floats (hundredths are not needed here: whole
\* numbers); json turns the first into strings
EnumMember(v) == [py |-> "VerificationStatus", value |-> v]
PyStr(v) == [py |-> "str", value |-> v]
PyFloat(x) == [py |-> "float", value |-> x]
PyInt(x) == [py |-> "int", value |-> x]

\* the result dictionaries the handler stores
Results ==
    { [verification_status |-> EnumMember("TRUE"), overall_credibility |-> PyFloat(80)],
      [verification_status |-> EnumMember("FALSE"), overall_credibility |-> PyFloat(20)] }

\* json.dumps / json.loads on one value
JsonEncode(pv) ==
    IF pv.py \in {"VerificationStatus", "str"}
    THEN [js |-> "string", value |-> pv.value]
    ELSE [js |-> "number", value |-> pv.value, fraction |-> (pv.py = "float")]

JsonDecode(j) ==
    IF j.js = "string" THEN PyStr(j.value)
    ELSE IF j.fraction THEN PyFloat(j.value)
    ELSE PyInt(j.value)

json_dumps(result) == [f \in DOMAIN result |-> JsonEncode(result[f])]
json_loads(text) == [f \in DOMAIN text |-> JsonDecode(text[f])]

\* Python's == on these values: a str-enum member equals its string, an int
\* equals the float of the same value
PyEq(a, b) ==
    LET strs == {"VerificationStatus", "str"}
        nums == {"float", "int"}
    IN  \/ a.py \in strs /\ b.py \in strs /\ a.value = b.value
        \/ a.py \in nums /\ b.py \in nums /\ a.value = b.value

DictEq(d1, d2) ==
    /\ DOMAIN d1 = DOMAIN d2
    /\ \A f \in DOMAIN d1 : PyEq(d1[f], d2[f])

\* _missing_ without its LIKELY_TRUE and LIKELY_FALSE branches
VerificationStatusMixedOnly(value) ==
    IF value \in {"TRUE", "FALSE", "AMBIGUOUS"} THEN EnumMember(value)
    ELSE EnumMember("AMBIGUOUS")

\* VerificationStatus(value): the member with that value, else _missing_
VerificationStatus(value) ==
    IF value \in {"TRUE", "FALSE", "AMBIGUOUS"} THEN EnumMember(value)
    ELSE IF value = "MIXED" THEN EnumMember("AMBIGUOUS")
    ELSE IF value = "LIKELY_FALSE" THEN EnumMember("FALSE")
    ELSE IF value = "LIKELY_TRUE" THEN EnumMember("TRUE")
    ELSE EnumMember("AMBIGUOUS")

\* the pre-validator with its first branch left out: only members pass
ValidateMembersOnly(v) ==
    IF v.py = "VerificationStatus" THEN v ELSE EnumMember("AMBIGUOUS")

\* the pre-validator of ClaimAnalysis.verification_status; a member of the
\* str enum is a str as well
validate_verification_status(v) ==
    IF v.py \in {"str", "VerificationStatus"} THEN VerificationStatus(Upper(v.value))
    ELSE EnumMember("AMBIGUOUS")

\* ClaimAnalysis(**fields), reduced to the fields kept here
ClaimAnalysis(fields) ==
    [fields EXCEPT !.verification_status = validate_verification_status(@)]

RowsOf(table, input_hash) == {row \in table : row.input_hash = input_hash}

\* variants of the INSERT below: without the UNIQUE constraint nothing is
\* replaced; with OR IGNORE the existing row is kept
InsertNoUnique(table, rowid, input_hash, result_json) ==
    table \cup {[id |-> rowid, input_hash |-> input_hash, result |-> result_json]}

InsertOrIgnore(table, rowid, input_hash, result_json) ==
    IF RowsOf(table, input_hash) # {} THEN table
    ELSE table \cup {[id |-> rowid, input_hash |-> input_hash, result |-> result_json]}

\* INSERT OR REPLACE INTO analysis_cache (input_hash, result) with
\* input_hash UNIQUE: the conflicting row is deleted, the new row gets the
\* next AUTOINCREMENT id
InsertOrReplace(table, rowid, input_hash, result_json) ==
    (table \ RowsOf(table, input_hash))
        \cup {[id |-> rowid, input_hash |-> input_hash, result |-> result_json]}

\* cache_analysis: the table after the commit
cache_analysis(table, rowid, input_hash, result) ==
    InsertOrReplace(table, rowid, input_hash, json_dumps(result))

\* cursor.fetchone() on SELECT result ... WHERE input_hash = ?
FetchOne(table, input_hash) ==
    LET rows == RowsOf(table, input_hash)
    IN  IF rows = {} THEN PyNone
        ELSE (CHOOSE row \in rows : \A other \in rows : row.id <= other.id).result

get_cached_analysis(table, input_hash) ==
    LET row == FetchOne(table, input_hash)
    IN  IF row = PyNone THEN PyNone ELSE json_loads(row)

\* one /analyze request: the place it is at, its cache key, what the cache
\* answered, the analysis it computed and what it returned
IdleRequest ==
    [pc |-> "idle", cache_key |-> "none", cached_result |-> PyNone,
     analysis |-> PyNone, response |-> PyNone]

\* raise HTTPException(status_code=...)
HTTPException(status_code) == [py |-> "HTTPException", status_code |-> status_code]

\* the rows of table fact_checks while the requests below are served
ServedRows == <<<<1, "claim_1">>>>

InitCache ==
    /\ analysis_cache = {}
    /\ next_rowid = 1
    /\ last_put = [k \in Keys |-> PyNone]
    /\ req = [r \in 1..NumRequests |-> IdleRequest]
    /\ models = "loaded"
    /\ InitRetriever(ServedRows)
    /\ IdleAggregate
    /\ IdleVerify
    /\ IdleScore

\* the effect of one cache_analysis call on the table and on the histories
Put(input_hash, result) ==
    /\ next_rowid <= MaxRowId
    /\ analysis_cache' = cache_analysis(analysis_cache, next_rowid, input_hash, result)
    /\ next_rowid' = next_rowid + 1
    /\ last_put' = [last_put EXCEPT ![input_hash] = result]

\* db.cache_analysis called by another client of the module-level db
DbCacheAnalysis ==
    \E k \in Keys, result \in Results :
        /\ Put(k, result)
        /\ UNCHANGED <<req, models>>
        /\ UNCHANGED <<aggVars, verifyVars, retrieverVars, scoreVars>>

\* analyze_claim, lines 95-105: the cache key and the cache read; a hit is
\* returned at once
AnalyzeLookup(r) ==
    \E k \in Keys :
        /\ req[r].pc = "idle"
        /\ LET hit == get_cached_analysis(analysis_cache, k)
           IN  req' = [req EXCEPT ![r] =
                   IF hit # PyNone
                   THEN [@ EXCEPT !.pc = "done", !.cache_key = k,
                                  !.cached_result = hit,
                                  !.response = ClaimAnalysis(hit)]
                   ELSE [@ EXCEPT !.pc = "miss", !.cache_key = k]]
        /\ UNCHANGED <<analysis_cache, next_rowid, last_put, models>>
        /\ UNCHANGED <<aggVars, verifyVars, retrieverVars, scoreVars>>

\* a request that ended in an exception: its locals are gone, the client
\* gets the error response
Failed(error) == [IdleRequest EXCEPT !.pc = "failed", !.response = error]

\* line 103 raises (sqlite3.Error): the handler's last except clause turns
\* it into a response with status 500
AnalyzeLookupRaises(r) ==
    /\ req[r].pc = "idle"
    /\ req' = [req EXCEPT ![r] = Failed(HTTPException(500))]
    /\ UNCHANGED <<analysis_cache, next_rowid, last_put, models>>
    /\ UNCHANGED <<aggVars, verifyVars, retrieverVars, scoreVars>>

\* what EnhancedFactChecker.analyze_claim returns while a model is missing
Placeholder ==
    [verification_status |-> EnumMember("AMBIGUOUS"), overall_credibility |-> PyInt(0)]

\* EnhancedFactChecker.analyze_claim: the placeholder without the models,
\* else what the pipeline computes, any of Results
FactCheckerAnswers == IF models = "loaded" THEN Results ELSE {Placeholder}

\* lines 107-152: claim extraction, the fact checker and the ClaimAnalysis
\* built from its answer
AnalyzeCompute(r) ==
    \E result \in FactCheckerAnswers :
        /\ req[r].pc = "miss"
        /\ req' = [req EXCEPT ![r] =
               [@ EXCEPT !.pc = "computed", !.analysis = ClaimAnalysis(result)]]
        /\ UNCHANGED <<analysis_cache, next_rowid, last_put, models>>
        /\ UNCHANGED <<aggVars, verifyVars, retrieverVars, scoreVars>>

\* lines 154-157: the cache write of analysis.dict() and the return
AnalyzeStore(r) ==
    /\ req[r].pc = "computed"
    /\ Put(req[r].cache_key, req[r].analysis)
    /\ req' = [req EXCEPT ![r] = [@ EXCEPT !.pc = "done", !.response = req[r].analysis]]
    /\ UNCHANGED models
    /\ UNCHANGED <<aggVars, verifyVars, retrieverVars, scoreVars>>

\* line 155 raises before the commit: nothing is written, the handler's
\* last except clause answers with status 500 and the analysis is dropped
AnalyzeStoreRaises(r) ==
    /\ req[r].pc = "computed"
    /\ req' = [req EXCEPT ![r] = Failed(HTTPException(500))]
    /\ UNCHANGED <<analysis_cache, next_rowid, last_put, models>>
    /\ UNCHANGED <<aggVars, verifyVars, retrieverVars, scoreVars>>

\* the request is over; the slot serves the next one
AnalyzeFinish(r) ==
    /\ req[r].pc \in {"done", "failed"}
    /\ req' = [req EXCEPT ![r] = IdleRequest]
    /\ UNCHANGED <<analysis_cache, next_rowid, last_put, models>>
    /\ UNCHANGED <<aggVars, verifyVars, retrieverVars, scoreVars>>

Next ==
    \/ DbCacheAnalysis
    \/ \E r \in 1..NumRequests : AnalyzeLookup(r)
    \/ \E r \in 1..NumRequests : AnalyzeCompute(r)
    \/ \E r \in 1..NumRequests : AnalyzeStore(r)
    \/ \E r \in 1..NumRequests : AnalyzeFinish(r)
    \/ \E r \in 1..NumRequests : AnalyzeLookupRaises(r)
    \/ \E r \in 1..NumRequests : AnalyzeStoreRaises(r)
    \/ RebuildIndex

Spec == InitCache /\ [][Next]_vars

\* request r has just read the cache in this step
ReadsCache(r) == req[r].pc = "idle" /\ req'[r].pc \in {"miss", "done"}

\* C9: get_cached_analysis(key) returns None when the key was never
\* written, and otherwise a dictionary equal (Python ==) to the result of
\* the latest cache_analysis on that key, whatever was written to other keys.
C9_CacheRoundTrip ==
    [][\A r \in 1..NumRequests :
          ReadsCache(r) =>
              IF last_put[req'[r].cache_key] = PyNone
              THEN req'[r].pc = "miss" /\ req'[r].cached_result = PyNone
              ELSE /\ req'[r].pc = "done"
                   /\ DictEq(req'[r].cached_result, last_put[req'[r].cache_key])]_vars

\* after earlier writes a key was written, then the other key, and a request
\* read the first key back as last written
C9_Witness ==
    \E r \in 1..NumRequests :
        /\ req[r].pc = "done"
        /\ req[r].cached_result # PyNone
        /\ DictEq(req[r].cached_result, last_put[req[r].cache_key])
        /\ \E mine \in RowsOf(analysis_cache, req[r].cache_key) :
               /\ mine.id >= 2
               /\ \E row \in analysis_cache :
                      row.input_hash # req[r].cache_key /\ row.id > mine.id
        /\ \A q \in 1..NumRequests : q # r => req[q].pc = "idle"

\* C10: whatever the interleaving of requests, analysis_cache holds at most
\* one row per input hash, a written key has its row, and the row holds the
\* result of the latest completed write on that key.
C10_OneEntryPerHash ==
    \A k \in Keys :
        /\ Cardinality(RowsOf(analysis_cache, k)) <= 1
        /\ last_put[k] # PyNone => RowsOf(analysis_cache, k) # {}
        /\ \A row \in RowsOf(analysis_cache, k) :
               /\ last_put[k] # PyNone
               /\ row.result = json_dumps(last_put[k])

\* two requests with the same input both missed the cache and both wrote
\* different results
C10_Witness ==
    /\ req[1].pc = "done" /\ req[2].pc = "done"
    /\ req[1].cache_key = req[2].cache_key
    /\ req[1].cached_result = PyNone /\ req[2].cached_result = PyNone
    /\ req[1].analysis # PyNone /\ req[2].analysis # PyNone
    /\ req[1].analysis # req[2].analysis
    /\ Cardinality(RowsOf(analysis_cache, req[1].cache_key)) = 1

\* the two analyses carry the same verification status and the same
\* fingerprint, compared as Python compares them
SameVerdictAndFingerprint(a, b) ==
    /\ PyEq(a.verification_status, b.verification_status)
    /\ PyEq(a.overall_credibility, b.overall_credibility)

\* C11: a call that computes a result returns what it stores under the key
\* of its input, and a later call with the same input, nothing else having
\* been written under that key meanwhile, returns an analysis with the same
\* verification status and the same fingerprint.
C11_Idempotent ==
    [][\A r \in 1..NumRequests :
          /\ (req[r].pc = "computed" /\ req'[r].pc = "done") =>
                 /\ req'[r].response = req[r].analysis
                 /\ last_put'[req[r].cache_key] = req'[r].response
          /\ (ReadsCache(r) /\ last_put[req'[r].cache_key] # PyNone) =>
                 /\ req'[r].pc = "done"
                 /\ req'[r].response.verification_status.py = "VerificationStatus"
                 /\ SameVerdictAndFingerprint(req'[r].response,
                                              last_put[req'[r].cache_key])]_vars

\* the first request computed TRUE, stored it as the only row ever written
\* and returned it; the second request, same input, got the same answer
C11_Witness ==
    /\ req[1].pc = "done" /\ req[2].pc = "done"
    /\ req[1].cache_key = req[2].cache_key
    /\ req[1].cached_result = PyNone /\ req[1].analysis # PyNone
    /\ req[2].cached_result # PyNone
    /\ next_rowid = 2
    /\ req[1].response.verification_status = EnumMember("TRUE")
    /\ req[2].response.verification_status = EnumMember("TRUE")
    /\ SameVerdictAndFingerprint(req[2].response, req[1].response)

\* C12: a step that changes the retriever (a rebuild of the index) leaves
\* table analysis_cache as it was, and the rows of a key change in no step
\* but a cache write on that key, which leaves the written result as the
\* single row of the key.
C12_RebuildKeepsCache ==
    [][/\ <<index, fact_checks, index_file>>' # <<index, fact_checks, index_file>>
           => UNCHANGED <<analysis_cache, next_rowid, last_put>>
       /\ \A k \in Keys :
              RowsOf(analysis_cache', k) # RowsOf(analysis_cache, k) =>
                  /\ next_rowid' = next_rowid + 1
                  /\ RowsOf(analysis_cache', k) =
                         {[id |-> next_rowid, input_hash |-> k,
                           result |-> json_dumps(last_put'[k])]}]_vars

\* the index has been rebuilt, the cache holds a row, and a request has
\* just been answered from that row
C12_Witness ==
    /\ index # PyNone
    /\ \E r \in 1..NumRequests :
           /\ req[r].pc = "done"
           /\ req[r].cached_result # PyNone
           /\ RowsOf(analysis_cache, req[r].cache_key) # {}
           /\ DictEq(req[r].cached_result, last_put[req[r].cache_key])

\* C13 as stated: a request whose cache read or cache write raised is still
\* answered with the analysis the pipeline computed.
C13_CacheFailureTolerated ==
    \A r \in 1..NumRequests :
        req[r].pc = "failed" =>
            /\ req[r].response # HTTPException(500)
            /\ DOMAIN req[r].response = {"verification_status", "overall_credibility"}


(***************************************************************************)
(* Scoring: EnhancedFactChecker._analyze_evidence,                         *)
(* _calculate_credibility_scores and _generate_verdict,                    *)
(* CredibilityScorer._calculate_overall_score and                          *)
(* IndustrialFactChecker._calculate_structured_scores.                     *)
(* A float of these functions is kept as an exact fraction num/den with    *)
(* den > 0; reliabilities are percentages, the confidences, credibilities  *)
(* and risks of CredibilityScorer are hundredths.                          *)
(***************************************************************************)
MaxScored == 3

Rat(n, d) == [num |-> n, den |-> d]
RatLe(a, b) == a.num * b.den <= b.num * a.den
RatLt(a, b) == a.num * b.den < b.num * a.den
RatEq(a, b) == a.num * b.den = b.num * a.den
RatAdd(a, b) == Rat(a.num * b.den + b.num * a.den, a.den * b.den)

\* Python's min and max on two numbers, and max(lo, min(hi, x))
PyMin(a, b) == IF RatLt(b, a) THEN b ELSE a
PyMax(a, b) == IF RatLt(a, b) THEN b ELSE a
Clamp(x, lo, hi) == PyMax(Rat(lo, 1), PyMin(Rat(hi, 1), x))

\* int(x) for x >= 0
Trunc(x) == x.num \div x.den

InRange(x, lo, hi) == RatLe(Rat(lo, 1), x) /\ RatLe(x, Rat(hi, 1))

\* an Evidence the collector returned, with what the NLI model answers for
\* its text ("raises": the model call raises)
ReliabilityValues == {0, 71, 100}
NliPredictions == {"entailment", "contradiction", "neutral", "raises"}
CollectedEvidence == [prediction : NliPredictions, reliability_score : ReliabilityValues]

\* the evidence object after evidence.type = type
Typed(ev, type) == [reliability_score |-> ev.reliability_score, type |-> type]

Retype(list, type) == [i \in 1..Len(list) |-> Typed(list[i], type)]

RECURSIVE SumReliability(_)
SumReliability(list) ==
    IF list = <<>> THEN 0
    ELSE Head(list).reliability_score + SumReliability(Tail(list))

\* _analyze_evidence, the except branch: every object of the list, the
\* ones already filed included, becomes CONTEXT, is filed as contextual and
\* is counted once more
AnalyzeExcept(evidences, partial) ==
    [supporting |-> Retype(partial.supporting, "CONTEXT"),
     contradicting |-> Retype(partial.contradicting, "CONTEXT"),
     contextual |-> Retype(partial.contextual, "CONTEXT")
                        \o Retype(evidences, "CONTEXT"),
     total_reliability |-> partial.total_reliability + SumReliability(evidences)]

\* _analyze_evidence, the loop of the try branch
RECURSIVE AnalyzeLoop(_, _, _)
AnalyzeLoop(rest, evidences, partial) ==
    IF rest = <<>> THEN partial
    ELSE IF Head(rest).prediction = "raises" THEN AnalyzeExcept(evidences, partial)
    ELSE LET ev == Head(rest)
             filed == IF ev.prediction = "entailment"
                      THEN [partial EXCEPT !.supporting = Append(@, Typed(ev, "SUPPORT"))]
                      ELSE IF ev.prediction = "contradiction"
                      THEN [partial EXCEPT !.contradicting = Append(@, Typed(ev, "CONTRADICT"))]
                      ELSE [partial EXCEPT !.contextual = Append(@, Typed(ev, "CONTEXT"))]
         IN  AnalyzeLoop(Tail(rest), evidences,
                         [filed EXCEPT !.total_reliability = @ + ev.reliability_score])

analyze_evidence(evidences) ==
    AnalyzeLoop(evidences, evidences,
                [supporting |-> <<>>, contradicting |-> <<>>, contextual |-> <<>>,
                 total_reliability |-> 0])

\* CredibilityFingerprint(...): pydantic checks the declared ranges
CredibilityFingerprint(kwargs) ==
    IF /\ InRange(kwargs.overall_credibility, 0, 100)
       /\ InRange(kwargs.source_trust, 0, 100)
       /\ InRange(kwargs.language_safety, 0, 100)
       /\ kwargs.corroboration_count >= 0
       /\ kwargs.contradiction_count >= 0
    THEN [ok |-> TRUE, value |-> kwargs]
    ELSE [ok |-> FALSE, raised |-> "ValidationError"]

CountType(list, type) == Cardinality({i \in 1..Len(list) : list[i].type = type})

calculate_credibility_scores(evidence_analysis) ==
    LET all == evidence_analysis.supporting \o evidence_analysis.contradicting
                   \o evidence_analysis.contextual
        avg_reliability == IF Len(all) > 0
                           THEN Rat(evidence_analysis.total_reliability, Len(all))
                           ELSE Rat(50, 1)
        support_count == Len(evidence_analysis.supporting)
        contradict_count == Len(evidence_analysis.contradicting)
        credibility == IF support_count + contradict_count > 0
                       THEN Rat(support_count * 100 * avg_reliability.num,
                                (support_count + contradict_count * 2) * 100
                                    * avg_reliability.den)
                       ELSE Rat(50, 1)
        language_safety == Rat(100 - 10 * CountType(all, "CONTRADICT"), 1)
    IN  CredibilityFingerprint(
            [overall_credibility |-> Clamp(credibility, 0, 100),
             source_trust |-> avg_reliability,
             corroboration_count |-> support_count,
             contradiction_count |-> contradict_count,
             language_safety |-> Clamp(language_safety, 0, 100)])

\* _generate_verdict with FALSE from 50 down instead of 40
GenerateVerdictFalseAt50(evidence_analysis, scores) ==
    IF \/ RatLe(Rat(70, 1), scores.overall_credibility)
       \/ Len(evidence_analysis.supporting) > 2
    THEN "TRUE"
    ELSE IF \/ RatLe(scores.overall_credibility, Rat(50, 1))
            \/ Len(evidence_analysis.contradicting) > 2
    THEN "FALSE"
    ELSE "AMBIGUOUS"

\* _generate_verdict (the second definition of the class, which is the one
\* in force) on an analysis without 'matched' and a CredibilityFingerprint
generate_verdict(evidence_analysis, scores) ==
    IF \/ RatLe(Rat(70, 1), scores.overall_credibility)
       \/ Len(evidence_analysis.supporting) > 2
    THEN "TRUE"
    ELSE IF \/ RatLe(scores.overall_credibility, Rat(40, 1))
            \/ Len(evidence_analysis.contradicting) > 2
    THEN "FALSE"
    ELSE "AMBIGUOUS"

\* steps 3 to 5 of EnhancedFactChecker.analyze_claim on one evidence list
EnhancedScores(evidences) ==
    LET evidence_analysis == analyze_evidence(evidences)
        scores == calculate_credibility_scores(evidence_analysis)
    IN  [evidence_analysis |-> evidence_analysis,
         scores |-> scores,
         verdict |-> IF scores.ok THEN generate_verdict(evidence_analysis, scores.value)
                     ELSE "none"]

\* CredibilityScorer: evidence with nli_label and confidence (hundredths)
ScorerConfidences == {0, 71, 100}
ScorerEvidence == [nli_label : NliLabels, confidence : ScorerConfidences]
ScorerCredibilities == {50, 100}
ScorerRisks == {0, 50}

calculate_corroboration_count(evidences) ==
    Cardinality({i \in 1..Len(evidences) :
                    /\ evidences[i].nli_label = "ENTAILMENT"
                    /\ evidences[i].confidence > 50})

RECURSIVE SumConfidence(_)
SumConfidence(list) ==
    IF list = <<>> THEN 0 ELSE Head(list).confidence + SumConfidence(Tail(list))

\* _calculate_overall_score; the terms before the evidence bonus, in
\* ten-thousandths: 0.4 * credibility + min(0.3, 0.1 * count) - 0.2 * risk
calculate_overall_score(source_credibility, corroboration_count, language_risk, evidences) ==
    LET before == source_credibility * 40 + Min(3000, corroboration_count * 1000)
                      - language_risk * 20
        score == IF evidences # <<>>
                 THEN Rat(before * Len(evidences) + 10 * SumConfidence(evidences),
                          10000 * Len(evidences))
                 ELSE Rat(before, 10000)
    IN  Clamp(score, 0, 1)

\* IndustrialFactChecker: what its regular expressions and its character
\* sums find in seven texts. phrase_matches: matches of the nine word patterns
\* of _assess_language_safety in the upper-cased text; exclamation_runs: the
\* lengths of the maximal runs of '!'; upper_chars and length: the counts
\* behind caps_ratio; quality_score: the score of _analyze_content_quality
\* before its hash adjustment; scientific_score and manipulation_score: the
\* scores of _check_scientific_markers and _check_manipulation_markers;
\* variance_hash: sum(ord(c)) % 11
UserInputs ==
    { [text |-> "study", content_hash |-> 1, credibility_indicators |-> 18,
       trust_adjustment |-> 15, phrase_matches |-> 0, exclamation_runs |-> <<>>,
       upper_chars |-> 2, length |-> 77, emotional_patterns |-> 0,
       quality_score |-> 41, academic_language_score |-> 3,
       scientific_score |-> 12, manipulation_score |-> 0, variance_hash |-> 3],
      [text |-> "plain", content_hash |-> 46, credibility_indicators |-> 0,
       trust_adjustment |-> 0, phrase_matches |-> 0, exclamation_runs |-> <<>>,
       upper_chars |-> 2, length |-> 55, emotional_patterns |-> 0,
       quality_score |-> 20, academic_language_score |-> 0,
       scientific_score |-> 0, manipulation_score |-> 0, variance_hash |-> 9],
      [text |-> "vague", content_hash |-> 65, credibility_indicators |-> 0,
       trust_adjustment |-> -20, phrase_matches |-> 0, exclamation_runs |-> <<>>,
       upper_chars |-> 1, length |-> 43, emotional_patterns |-> 0,
       quality_score |-> 20, academic_language_score |-> 0,
       scientific_score |-> 0, manipulation_score |-> 0, variance_hash |-> 6],
      [text |-> "secret", content_hash |-> 97, credibility_indicators |-> -35,
       trust_adjustment |-> 0, phrase_matches |-> 2, exclamation_runs |-> <<3>>,
       upper_chars |-> 8, length |-> 61, emotional_patterns |-> 0,
       quality_score |-> -15, academic_language_score |-> 0,
       scientific_score |-> 0, manipulation_score |-> 55, variance_hash |-> 7],
      [text |-> "shouting", content_hash |-> 19, credibility_indicators |-> -15,
       trust_adjustment |-> 0, phrase_matches |-> 8, exclamation_runs |-> <<>>,
       upper_chars |-> 71, length |-> 82, emotional_patterns |-> 1,
       quality_score |-> 10, academic_language_score |-> 0,
       scientific_score |-> 0, manipulation_score |-> 15, variance_hash |-> 9],
      [text |-> "scenario_d", content_hash |-> 98, credibility_indicators |-> -35,
       trust_adjustment |-> 0, phrase_matches |-> 2, exclamation_runs |-> <<2, 2>>,
       upper_chars |-> 43, length |-> 57, emotional_patterns |-> 0,
       quality_score |-> -15, academic_language_score |-> 0,
       scientific_score |-> 0, manipulation_score |-> 55, variance_hash |-> 3],
      [text |-> "review", content_hash |-> 63, credibility_indicators |-> 10,
       trust_adjustment |-> 0, phrase_matches |-> 0, exclamation_runs |-> <<>>,
       upper_chars |-> 2, length |-> 156, emotional_patterns |-> 0,
       quality_score |-> 61, academic_language_score |-> 3,
       scientific_score |-> 4, manipulation_score |-> 0, variance_hash |-> 2] }

ScoredSources == [stance : {"supports", "contradicts", "neutral"}, credibility : {0, 90}]

\* len(re.findall(r'!!{2,}', text)): one match for each run of three or
\* more exclamation marks
ExclamationMatches(runs) == Cardinality({i \in 1..Len(runs) : runs[i] >= 3})

\* the deductions of _assess_language_safety: 15 for a match of a
\* sensational pattern, 20 once if caps_ratio > 0.3, 10 for each emotion
\* pattern found
SafetyDeductions(user_input) ==
    15 * (user_input.phrase_matches + ExclamationMatches(user_input.exclamation_runs))
        + (IF user_input.upper_chars * 10
                  > 3 * (IF user_input.length > 1 THEN user_input.length ELSE 1)
           THEN 20 ELSE 0)
        + 10 * user_input.emotional_patterns

\* _assess_language_safety without its last line
SafetyUnclamped(user_input) == 100 - SafetyDeductions(user_input)

assess_language_safety(user_input) ==
    LET safety_score == 100 - SafetyDeductions(user_input)
    IN  IF safety_score < 0 THEN 0 ELSE IF safety_score > 100 THEN 100 ELSE safety_score

\* sum of cred * (1 + cred / 100) and of (1 + cred / 100), both times 100
RECURSIVE WeightedSum(_)
WeightedSum(sources) ==
    IF sources = <<>> THEN 0
    ELSE Head(sources).credibility * (100 + Head(sources).credibility)
             + WeightedSum(Tail(sources))

RECURSIVE TotalWeights(_)
TotalWeights(sources) ==
    IF sources = <<>> THEN 0
    ELSE (100 + Head(sources).credibility) + TotalWeights(Tail(sources))

calculate_structured_scores(user_input, evidence_comparison) ==
    LET content_hash == user_input.content_hash
        support_weight == evidence_comparison.support_weight
        contradict_weight == evidence_comparison.contradict_weight
        supporting == Len(evidence_comparison.supporting_sources)
        contradicting == Len(evidence_comparison.contradicting_sources)
        total_weight == support_weight + contradict_weight
        base_credibility == Rat(support_weight * 100, total_weight)
        adjusted ==
            IF supporting > 0 /\ contradicting = 0
            THEN PyMin(Rat(95, 1),
                       RatAdd(base_credibility, Rat(Min(15, supporting * 5), 1)))
            ELSE IF contradicting > 0 /\ supporting = 0
            THEN PyMax(Rat(5, 1),
                       RatAdd(base_credibility, Rat(-Min(15, contradicting * 5), 1)))
            ELSE base_credibility
        shifted == IF InRange(adjusted, 48, 52)
                   THEN RatAdd(adjusted, Rat(((content_hash % 10) - 5) * 6, 10))
                   ELSE adjusted
        base_score == 45 + ((content_hash % 21) - 10)
        overall_credibility ==
            IF total_weight > 0 THEN shifted
            ELSE Clamp(Rat(base_score + user_input.credibility_indicators, 1), 10, 90)
        all_sources == evidence_comparison.supporting_sources
                           \o evidence_comparison.contradicting_sources
                           \o evidence_comparison.neutral_sources
        weighted == IF TotalWeights(all_sources) > 0
                    THEN Rat(WeightedSum(all_sources), TotalWeights(all_sources))
                    ELSE Rat(65, 1)
        source_trust ==
            IF all_sources # <<>>
            THEN RatAdd(weighted, Rat(((content_hash % 9) - 4) * 7, 10))
            ELSE Rat(60 + ((content_hash % 11) - 5) + user_input.trust_adjustment, 1)
    IN  [overall_credibility |-> Trunc(Clamp(overall_credibility, 0, 100)),
         source_trust |-> Trunc(Clamp(source_trust, 0, 100)),
         corroboration |-> supporting,
         contradiction |-> contradicting,
         language_safety |-> assess_language_safety(user_input)]

\* the arguments: an evidence list and the SUPPORT item added to it, or a
\* text and its evidence sources
HighReliability == {x \in ReliabilityValues : x > 70}

EnhancedInputs ==
    [fn : {"enhanced"}, evidence_list : SeqsUpTo(CollectedEvidence, MaxScored),
     added : [prediction : {"entailment"}, reliability_score : HighReliability]]

ScorerInputs ==
    [fn : {"scorer"}, evidence_list : SeqsUpTo(ScorerEvidence, MaxScored),
     added : [nli_label : {"ENTAILMENT"}, confidence : HighReliability],
     source_credibility : ScorerCredibilities, language_risk : ScorerRisks]

IndustrialInputs ==
    [fn : {"industrial"}, user_input : UserInputs,
     evidence_sources : SeqsUpTo(ScoredSources, MaxScored)]

InitScore ==
    /\ score_input \in EnhancedInputs \cup ScorerInputs \cup IndustrialInputs
    /\ score_result = NoCall
    /\ IdleAggregate
    /\ IdleVerify
    /\ IdleCache
    /\ IdleRetriever

\* the enhanced checker scores the list, and the list with the item added
CalculateCredibilityScores ==
    /\ score_input.fn = "enhanced" /\ score_result = NoCall
    /\ score_result' =
           [called |-> TRUE, fn |-> "enhanced",
            base |-> EnhancedScores(score_input.evidence_list),
            plus |-> EnhancedScores(Append(score_input.evidence_list, score_input.added))]
    /\ UNCHANGED score_input
    /\ UNCHANGED <<aggVars, verifyVars, cacheVars, retrieverVars>>

ScorerScore(evidences) ==
    calculate_overall_score(score_input.source_credibility,
                            calculate_corroboration_count(evidences),
                            score_input.language_risk, evidences)

\* CredibilityScorer scores the list, and the list with the item added
CalculateOverallScore ==
    /\ score_input.fn = "scorer" /\ score_result = NoCall
    /\ score_result' =
           [called |-> TRUE, fn |-> "scorer",
            base |-> ScorerScore(score_input.evidence_list),
            plus |-> ScorerScore(Append(score_input.evidence_list, score_input.added))]
    /\ UNCHANGED score_input
    /\ UNCHANGED <<aggVars, verifyVars, cacheVars, retrieverVars>>

\* the industrial checker compares the sources and scores text and sources
CalculateStructuredScores ==
    /\ score_input.fn = "industrial" /\ score_result = NoCall
    /\ score_result' =
           [called |-> TRUE, fn |-> "industrial",
            scores |-> calculate_structured_scores(
                           score_input.user_input,
                           compare_against_evidence(score_input.evidence_sources))]
    /\ UNCHANGED score_input
    /\ UNCHANGED <<aggVars, verifyVars, cacheVars, retrieverVars>>

NextScore ==
    \/ CalculateCredibilityScores
    \/ CalculateOverallScore
    \/ CalculateStructuredScores

SpecScore == InitScore /\ [][NextScore]_vars

ScoredBy(fn) == score_result # NoCall /\ score_result.fn = fn

FingerprintInRange(scores) ==
    /\ scores.ok
    /\ InRange(scores.value.overall_credibility, 0, 100)
    /\ InRange(scores.value.source_trust, 0, 100)
    /\ InRange(scores.value.language_safety, 0, 100)
    /\ scores.value.corroboration_count \in Nat
    /\ scores.value.contradiction_count \in Nat

\* C18: whatever the evidence and the text, _calculate_credibility_scores
\* returns a fingerprint and _calculate_structured_scores returns scores
\* whose overall_credibility, source_trust and language_safety lie in
\* [0, 100] and whose two counts are integers >= 0.
C18_ScoresInRange ==
    /\ ScoredBy("enhanced") =>
           /\ FingerprintInRange(score_result.base.scores)
           /\ FingerprintInRange(score_result.plus.scores)
    /\ ScoredBy("industrial") =>
           /\ score_result.scores.overall_credibility \in 0..100
           /\ score_result.scores.source_trust \in 0..100
           /\ score_result.scores.language_safety \in 0..100
           /\ score_result.scores.corroboration \in Nat
           /\ score_result.scores.contradiction \in Nat

\* the industrial checker scored the all-capitals text, whose deductions add
\* up to more than 100, with a contradicting source only
C18_Witness ==
    /\ ScoredBy("industrial")
    /\ score_input.user_input.text = "shouting"
    /\ score_result.scores.language_safety = 0
    /\ score_result.scores.contradiction = 1
    /\ score_result.scores.corroboration = 0

\* C19: on an empty evidence list _calculate_credibility_scores returns
\* overall_credibility 50, source_trust 50, both counts 0 and
\* language_safety 100, and _generate_verdict makes AMBIGUOUS of it.
C19_EmptyEvidenceNeutral ==
    (ScoredBy("enhanced") /\ score_input.evidence_list = <<>>) =>
        /\ score_result.base.scores.ok
        /\ RatEq(score_result.base.scores.value.overall_credibility, Rat(50, 1))
        /\ RatEq(score_result.base.scores.value.source_trust, Rat(50, 1))
        /\ score_result.base.scores.value.corroboration_count = 0
        /\ score_result.base.scores.value.contradiction_count = 0
        /\ RatEq(score_result.base.scores.value.language_safety, Rat(100, 1))
        /\ score_result.base.verdict = "AMBIGUOUS"

\* the enhanced checker scored the empty list
C19_Witness ==
    /\ ScoredBy("enhanced")
    /\ score_input.evidence_list = <<>>
    /\ score_result.base.evidence_analysis.contextual = <<>>
    /\ score_result.base.verdict = "AMBIGUOUS"

\* C20 as stated: adding a SUPPORT item of reliability above 70 to an
\* evidence list never lowers overall_credibility, in the enhanced checker
\* and in CredibilityScorer, and a TRUE verdict stays TRUE.
C20_Monotone ==
    /\ ScoredBy("enhanced") =>
           /\ RatLe(score_result.base.scores.value.overall_credibility,
                    score_result.plus.scores.value.overall_credibility)
           /\ score_result.base.verdict = "TRUE" => score_result.plus.verdict = "TRUE"
    /\ ScoredBy("scorer") => RatLe(score_result.base, score_result.plus)

\* the items of an analysis, whatever list they are filed in
AllItems(evidence_analysis) ==
    evidence_analysis.supporting \o evidence_analysis.contradicting
        \o evidence_analysis.contextual

CountTrusted(list, type) ==
    Cardinality({i \in 1..Len(list) :
                    list[i].type = type /\ list[i].reliability_score > 70})

\* C21 as stated: corroboration_count is the number of SUPPORT items whose
\* reliability exceeds the trust threshold 70 and contradiction_count the
\* number of CONTRADICT items whose reliability exceeds it; items at or
\* below the threshold are not counted.
C21_CountsAboveThreshold ==
    ScoredBy("enhanced") =>
        LET analysis == score_result.base.evidence_analysis
            scores == score_result.base.scores.value
        IN  /\ scores.corroboration_count = CountTrusted(AllItems(analysis), "SUPPORT")
            /\ scores.contradiction_count = CountTrusted(AllItems(analysis), "CONTRADICT")

\* C22 as stated: language safety starts at 100, loses a fixed penalty for
\* each sensational phrase, each run of two or more exclamation marks and
\* each ALL-CAPS token, and is clamped; for the text of scenario D (two
\* phrases, two runs of two marks, all letters upper-case)
\* _assess_language_safety returns a value strictly below 50.
C22_ScenarioDUnsafe ==
    (ScoredBy("industrial") /\ score_input.user_input.text = "scenario_d") =>
        score_result.scores.language_safety < 50

(***************************************************************************)
(* The status boundary of /analyze: what main.py and ClaimAnalysis make of *)
(* the verification_status the fact checker hands over, on the fresh path  *)
(* and when the stored result is served again.                             *)
(***************************************************************************)
UpstreamStrings ==
    {"TRUE", "FALSE", "AMBIGUOUS", "MIXED", "LIKELY_TRUE", "LIKELY_FALSE",
     "UNVERIFIED", "UNCERTAIN", "UNCLEAR", "true", "false", "ambiguous", "mixed",
     "Likely_True", "likely_false", "unverified", ""}

\* values of analysis_result['verification_status']: members, strings and
\* values that are neither
UpstreamStatuses ==
    {EnumMember(v) : v \in {"TRUE", "FALSE", "AMBIGUOUS"}}
        \cup {PyStr(v) : v \in UpstreamStrings}
        \cup {PyNone, PyInt(1), PyFloat(1)}

BoundaryInputs ==
    [fn : {"boundary"}, verification_status : UpstreamStatuses,
     overall_credibility : {PyFloat(0), PyFloat(50), PyFloat(100)}]

\* main.py 134-143: "Ensure verification_status is a valid enum"
EnsureEnum(v) ==
    IF v.py = "VerificationStatus" THEN v
    ELSE IF v.py = "str" THEN VerificationStatus(Upper(v.value))
    ELSE EnumMember("AMBIGUOUS")

InitStatus ==
    /\ score_input \in BoundaryInputs
    /\ score_result = NoCall
    /\ IdleAggregate
    /\ IdleVerify
    /\ IdleCache
    /\ IdleRetriever

\* main.py 134-157: the status is made an enum member, the ClaimAnalysis is
\* built, its dict() is stored as json and the analysis is returned
BuildClaimAnalysis ==
    /\ score_input.fn = "boundary" /\ score_result = NoCall
    /\ LET analysis == ClaimAnalysis(
                           [verification_status |-> EnsureEnum(score_input.verification_status),
                            overall_credibility |-> score_input.overall_credibility])
       IN  score_result' = [called |-> TRUE, fn |-> "boundary", path |-> "fresh",
                            stored |-> json_dumps(analysis), response |-> analysis]
    /\ UNCHANGED score_input
    /\ UNCHANGED <<aggVars, verifyVars, cacheVars, retrieverVars>>

\* main.py 103-105: the next request with that input gets
\* ClaimAnalysis(**cached_result)
ReturnCachedAnalysis ==
    /\ score_result # NoCall /\ score_result.fn = "boundary"
    /\ score_result.path = "fresh"
    /\ score_result' = [score_result EXCEPT
                            !.path = "cached",
                            !.response = ClaimAnalysis(json_loads(score_result.stored))]
    /\ UNCHANGED score_input
    /\ UNCHANGED <<aggVars, verifyVars, cacheVars, retrieverVars>>

NextStatus ==
    \/ BuildClaimAnalysis
    \/ ReturnCachedAnalysis

SpecStatus == InitStatus /\ [][NextStatus]_vars

\* the member the claim names for an upstream value; names are compared
\* without regard to case, as the code does
CanonicalOf(v) ==
    IF v.py = "VerificationStatus" THEN v.value
    ELSE IF v.py # "str" THEN "AMBIGUOUS"
    ELSE IF Upper(v.value) \in {"TRUE", "LIKELY_TRUE"} THEN "TRUE"
    ELSE IF Upper(v.value) \in {"FALSE", "LIKELY_FALSE"} THEN "FALSE"
    ELSE "AMBIGUOUS"

\* C23: every response of /analyze, fresh or from the cache, carries a
\* member of VerificationStatus (TRUE, FALSE, AMBIGUOUS): members pass,
\* MIXED becomes AMBIGUOUS, LIKELY_TRUE TRUE, LIKELY_FALSE FALSE, every
\* other string and every non-string AMBIGUOUS, and no construction raises
\* (each step yields a response).
C23_CanonicalStatus ==
    ScoredBy("boundary") =>
        /\ score_result.response.verification_status
               = EnumMember(CanonicalOf(score_input.verification_status))
        /\ score_result.response.verification_status.value
               \in {"TRUE", "FALSE", "AMBIGUOUS"}

\* the fact checker handed over the string likely_false, the response was
\* stored and served again from the cache as FALSE
C23_Witness ==
    /\ ScoredBy("boundary")
    /\ score_input.verification_status = PyStr("likely_false")
    /\ score_result.path = "cached"
    /\ score_result.stored.verification_status.value = "FALSE"
    /\ score_result.response.verification_status = EnumMember("FALSE")

\* C26: for every comparison with non-negative weights and positive total
\* weight, _decide_verdict answers TRUE when support_ratio > 0.6 and FALSE
\* when contradict_ratio > 0.6, also when the weight on that side is at most
\* 100 and fewer than two sources are on it.
C26_RatioThresholdsHonoured ==
    (decide_result.called /\ decide_result.total_weight > 0) =>
        /\ RatioGt(decide_result.support_weight, decide_result.total_weight, 6, 10)
               => decide_result.verdict = "TRUE"
        /\ RatioGt(decide_result.contradict_weight, decide_result.total_weight, 6, 10)
               => decide_result.verdict = "FALSE"

\* one contradicting source of weight 85 and nothing else: the ratio is 1,
\* no gate on weight or count passes, the verdict is FALSE
C26_Witness ==
    /\ decide_result.called
    /\ decide_result.total_weight > 0
    /\ RatioGt(decide_result.contradict_weight, decide_result.total_weight, 6, 10)
    /\ decide_result.contradict_weight <= 100
    /\ decide_result.contradicting_count < 2
    /\ decide_result.verdict = "FALSE"

AllOfType(list, type) == \A i \in 1..Len(list) : list[i].type = type

\* C28 as stated: after _analyze_evidence every input item is in exactly one
\* of the three lists, its type names the list it is in, and
\* total_reliability is the sum of the input reliabilities, each counted
\* once, also when the classifier raises after some items were classified.
C28_EvidencePartition ==
    ScoredBy("enhanced") =>
        LET analysis == score_result.base.evidence_analysis
        IN  /\ Len(AllItems(analysis)) = Len(score_input.evidence_list)
            /\ AllOfType(analysis.supporting, "SUPPORT")
            /\ AllOfType(analysis.contradicting, "CONTRADICT")
            /\ AllOfType(analysis.contextual, "CONTEXT")
            /\ analysis.total_reliability
                   = SumReliability([i \in 1..Len(score_input.evidence_list) |->
                         [reliability_score |->
                              score_input.evidence_list[i].reliability_score]])

(***************************************************************************)
(* demo/model.py: AnalysisModel.analyze_text on the values a caller can    *)
(* pass (what a JSON body or a Python caller holds), with the answers of   *)
(* verify_claim and of the sentiment pipeline as the environment gives     *)
(* them.  aggregate_confidence is in hundredths.                           *)
(***************************************************************************)
PyBool(b) == [py |-> "bool", value |-> b]
PyList(n) == [py |-> "list", len |-> n]
PyDict(n) == [py |-> "dict", len |-> n]

TextArguments ==
    {PyNone, PyStr(""), PyStr("Water freezes at 0 degrees Celsius"), PyStr(" "),
     PyInt(0), PyInt(42), PyFloat(0), PyFloat(1), PyBool(FALSE), PyBool(TRUE),
     PyList(0), PyList(1), PyDict(0), PyDict(1)}

\* bool(v) for these values
Truthy(v) ==
    CASE v.py = "NoneType" -> FALSE
      [] v.py = "str" -> v.value # ""
      [] v.py \in {"int", "float"} -> v.value # 0
      [] v.py = "bool" -> v.value
      [] v.py \in {"list", "dict"} -> v.len > 0

\* line 44 with its second test left out
EmptyOnly(text) == ~Truthy(text)

\* line 44: not text or not isinstance(text, str)
InvalidText(text) == ~Truthy(text) \/ text.py # "str"

\* what verify_claim returns: the aggregate of the sources, or the error
\* value of its except branch
VerificationResults ==
    [google_facts : BOOLEAN, news_verification : BOOLEAN,
     scientific_validation : BOOLEAN, aggregate_confidence : {0, 50, 100}]
        \cup {[error |-> "verification failed", aggregate_confidence |-> 0]}

SentimentResults == {"POSITIVE", "NEGATIVE", "raises"}

TextInputs ==
    [fn : {"analyze_text"}, text : TextArguments,
     verification_results : VerificationResults, sentiment : SentimentResults]

\* verification_results.get(key, {}).get('found', False)
Found(verification_results, key) ==
    key \in DOMAIN verification_results /\ verification_results[key]

analyze_text(text, verification_results, sentiment) ==
    IF InvalidText(text)
    THEN [error |-> "Invalid input text", credibility_score |-> Rat(0, 1),
          sentiment |-> "neutral", sources |-> <<>>, calls |-> <<>>]
    ELSE IF sentiment = "raises"
    THEN [error |-> "str(e)", credibility_score |-> Rat(0, 1),
          sentiment |-> "neutral", sources |-> <<>>,
          calls |-> <<"verify_claim", "sentiment_analyzer">>]
    ELSE LET found == (IF Found(verification_results, "google_facts")
                       THEN <<"Google Fact Check API">> ELSE <<>>)
                      \o (IF Found(verification_results, "news_verification")
                          THEN <<"News articles", "Media reports">> ELSE <<>>)
                      \o (IF Found(verification_results, "scientific_validation")
                          THEN <<"scientific source">> ELSE <<>>)
             sentiment_factor == IF sentiment = "POSITIVE" THEN 1 ELSE -1
             credibility_score ==
                 Rat(verification_results.aggregate_confidence * (10 + sentiment_factor), 10)
         IN  [error |-> "none", credibility_score |-> Clamp(credibility_score, 0, 100),
              sentiment |-> IF sentiment = "POSITIVE" THEN "positive" ELSE "negative",
              sources |-> IF found = <<>>
                          THEN <<"AI analysis", "Language pattern detection">>
                          ELSE found,
              calls |-> <<"verify_claim", "sentiment_analyzer">>]

InitText ==
    /\ score_input \in TextInputs
    /\ score_result = NoCall
    /\ IdleAggregate
    /\ IdleVerify
    /\ IdleCache
    /\ IdleRetriever

AnalyzeText ==
    /\ score_input.fn = "analyze_text" /\ score_result = NoCall
    /\ score_result' =
           [called |-> TRUE, fn |-> "analyze_text",
            result |-> analyze_text(score_input.text, score_input.verification_results,
                                    score_input.sentiment)]
    /\ UNCHANGED score_input
    /\ UNCHANGED <<aggVars, verifyVars, cacheVars, retrieverVars>>

SpecText == InitText /\ [][AnalyzeText]_vars

\* C25: for the empty string, None and every non-string argument
\* analyze_text returns (it does not raise) error "Invalid input text",
\* credibility_score 0 and no sources, and has called neither verify_claim
\* nor the sentiment analyzer.
C25_InvalidInputIsAValue ==
    (ScoredBy("analyze_text") /\ (score_input.text.py # "str" \/ score_input.text = PyStr(""))) =>
        /\ score_result.result.error = "Invalid input text"
        /\ RatEq(score_result.result.credibility_score, Rat(0, 1))
        /\ score_result.result.sources = <<>>
        /\ score_result.result.calls = <<>>

\* the argument was the number 42, which is truthy and not a string
C25_Witness ==
    /\ ScoredBy("analyze_text")
    /\ score_input.text = PyInt(42)
    /\ score_result.result.error = "Invalid input text"
    /\ score_result.result.calls = <<>>

(***************************************************************************)
(* EvidenceBasedVerifier.verify_with_evidence.  A source is given by what  *)
(* _analyze_evidence_piece finds in it: the two indicator counts and the   *)
(* trust of its domain.  relevance_score is in tenths, so a weight         *)
(* source_trust * relevance_score is in tenths as well.                    *)
(***************************************************************************)
MaxPieces == 3

EvidencePieces ==
    [supporting_indicators : {0, 1, 3}, contradicting_indicators : {0, 1, 2},
     source_trust : {50, 95}]

\* lines 130-145
analyze_evidence_piece(evidence) ==
    LET s == evidence.supporting_indicators
        c == evidence.contradicting_indicators
    IN  [source_trust |-> evidence.source_trust,
         stance |-> IF s > c /\ s > 0 THEN "supporting"
                    ELSE IF c > s /\ c > 0 THEN "contradicting"
                    ELSE "neutral",
         relevance_score |-> Min(s + c, 10)]

RECURSIVE AnalysedWithStance(_, _)
AnalysedWithStance(sources, stance) ==
    IF sources = <<>> THEN <<>>
    ELSE (IF analyze_evidence_piece(Head(sources)).stance = stance
          THEN <<analyze_evidence_piece(Head(sources))>> ELSE <<>>)
         \o AnalysedWithStance(Tail(sources), stance)

RECURSIVE TrustWeight(_)
TrustWeight(list) ==
    IF list = <<>> THEN 0
    ELSE Head(list).source_trust * Head(list).relevance_score + TrustWeight(Tail(list))

RECURSIVE SumTrust(_)
SumTrust(sources) ==
    IF sources = <<>> THEN 0 ELSE Head(sources).source_trust + SumTrust(Tail(sources))

\* _determine_verdict without the two tests on the number of sources of a
\* side
DetermineVerdictByWeight(supporting, contradicting, neutral) ==
    IF Len(supporting) + Len(contradicting) + Len(neutral) < 2 THEN "AMBIGUOUS"
    ELSE IF TrustWeight(supporting) > TrustWeight(contradicting) * 2 THEN "TRUE"
    ELSE IF TrustWeight(contradicting) > TrustWeight(supporting) * 2 THEN "FALSE"
    ELSE "AMBIGUOUS"

determine_verdict(supporting, contradicting, neutral) ==
    IF Len(supporting) + Len(contradicting) + Len(neutral) < 2 THEN "AMBIGUOUS"
    ELSE IF TrustWeight(supporting) > TrustWeight(contradicting) * 2 /\ Len(supporting) >= 2
    THEN "TRUE"
    ELSE IF TrustWeight(contradicting) > TrustWeight(supporting) * 2
            /\ Len(contradicting) >= 2
    THEN "FALSE"
    ELSE "AMBIGUOUS"

\* _calculate_scores; patterns_found: how many of the sensational patterns
\* occur in the claim
calculate_scores(patterns_found, supporting, contradicting, source_trust_scores, verdict) ==
    [overall_credibility |->
         IF verdict = "TRUE" THEN Min(95, 60 + Len(supporting) * 10)
         ELSE IF verdict = "FALSE"
         THEN (IF 40 - Len(contradicting) * 10 < 5 THEN 5
               ELSE 40 - Len(contradicting) * 10)
         ELSE 50,
     source_trust |->
         IF source_trust_scores # <<>>
         THEN SumTrust(source_trust_scores) \div Len(source_trust_scores)
         ELSE 50,
     corroboration |->
         IF verdict = "TRUE" THEN Len(supporting)
         ELSE IF verdict = "FALSE" THEN Len(contradicting)
         ELSE IF Len(supporting) > Len(contradicting) THEN Len(supporting)
         ELSE Len(contradicting),
     language_safety |->
         IF 100 - 15 * patterns_found < 0 THEN 0 ELSE 100 - 15 * patterns_found]

verify_with_evidence(patterns_found, sources) ==
    LET supporting_evidence == AnalysedWithStance(sources, "supporting")
        contradicting_evidence == AnalysedWithStance(sources, "contradicting")
        neutral_evidence == AnalysedWithStance(sources, "neutral")
        verdict == determine_verdict(supporting_evidence, contradicting_evidence,
                                     neutral_evidence)
    IN  [verdict |-> verdict,
         scores |-> calculate_scores(patterns_found, supporting_evidence,
                                     contradicting_evidence, sources, verdict),
         supporting_weight |-> TrustWeight(supporting_evidence),
         contradicting_weight |-> TrustWeight(contradicting_evidence),
         evidence_breakdown |->
             [supporting |-> Len(supporting_evidence),
              contradicting |-> Len(contradicting_evidence),
              neutral |-> Len(neutral_evidence),
              total_sources |-> Len(sources)]]

EvidenceInputs ==
    [fn : {"verify_with_evidence"}, patterns_found : {0, 7},
     sources : SeqsUpTo(EvidencePieces, MaxPieces)]

InitEvidence ==
    /\ score_input \in EvidenceInputs
    /\ score_result = NoCall
    /\ IdleAggregate
    /\ IdleVerify
    /\ IdleCache
    /\ IdleRetriever

VerifyWithEvidence ==
    /\ score_input.fn = "verify_with_evidence" /\ score_result = NoCall
    /\ score_result' =
           [called |-> TRUE, fn |-> "verify_with_evidence",
            result |-> verify_with_evidence(score_input.patterns_found, score_input.sources)]
    /\ UNCHANGED score_input
    /\ UNCHANGED <<aggVars, verifyVars, cacheVars, retrieverVars>>

SpecEvidence == InitEvidence /\ [][VerifyWithEvidence]_vars

\* C30: in verify_with_evidence the verdict is TRUE only with at least two
\* supporting sources and a supporting weight above twice the
\* contradicting weight, FALSE only under the symmetric condition, and
\* AMBIGUOUS with fewer than two sources; overall_credibility is in
\* [80, 95] for TRUE, in [5, 20] for FALSE and 50 for AMBIGUOUS; and the
\* three counts of evidence_breakdown add up to total_sources.
C30_VerdictMatchesScores ==
    ScoredBy("verify_with_evidence") =>
        LET r == score_result.result
            b == r.evidence_breakdown
        IN  /\ r.verdict \in {"TRUE", "FALSE", "AMBIGUOUS"}
            /\ r.verdict = "TRUE" =>
                   /\ b.supporting >= 2
                   /\ r.supporting_weight > 2 * r.contradicting_weight
                   /\ r.scores.overall_credibility \in 80..95
            /\ r.verdict = "FALSE" =>
                   /\ b.contradicting >= 2
                   /\ r.contradicting_weight > 2 * r.supporting_weight
                   /\ r.scores.overall_credibility \in 5..20
            /\ r.verdict = "AMBIGUOUS" => r.scores.overall_credibility = 50
            /\ Len(score_input.sources) < 2 => r.verdict = "AMBIGUOUS"
            /\ b.supporting + b.contradicting + b.neutral = b.total_sources

\* two contradicting sources outweigh one supporting source: FALSE at 20
C30_Witness ==
    /\ ScoredBy("verify_with_evidence")
    /\ score_result.result.verdict = "FALSE"
    /\ score_result.result.evidence_breakdown.supporting = 1
    /\ score_result.result.evidence_breakdown.contradicting = 2
    /\ score_result.result.scores.overall_credibility = 20

(***************************************************************************)
(* IndustrialFactChecker.analyze_misinformation.  Each call runs in a      *)
(* process of its own; hash() of a str is salted per process, so           *)
(* hash(content) % 100 is any residue.  Scores of the dynamic verdict are  *)
(* hundredths, the quality multiplier is in thousandths.                   *)
(***************************************************************************)
MaxProcesses == 2

HashResidues == 0..99

\* _analyze_content_quality, lines 1342-1372
analyze_content_quality(user_input, content_hash) ==
    LET hash_adjustment == (content_hash % 7) - 3
        quality_score == user_input.quality_score + hash_adjustment
    IN  [quality_score |-> IF quality_score < 0 THEN 0
                           ELSE IF quality_score > 100 THEN 100 ELSE quality_score,
         academic_language_score |-> user_input.academic_language_score]

\* what _semantic_search_knowledge_base found: 0 for no match (None), or
\* the similarity of the best match, in hundredths, which is above 0.75
KbSimilarities == {0, 80, 90}

\* the ML step of lines 236-253: the stub, a predictor that answers, or a
\* predictor that is missing or raises, which leaves ml_confidence unbound
MlServices == {"stub", "ok", "error"}

\* _generate_kb_evidence as industrial_fact_checker_helpers.py defines it,
\* for a match that is true
GenerateKbEvidenceOfHelpers(kb_similarity) ==
    [raised |-> "none", evidence |-> <<[stance |-> "supports", credibility |-> 90]>>]

\* self._generate_kb_evidence(kb_match) at line 273: the class has no such
\* attribute
generate_kb_evidence(kb_similarity) ==
    [raised |-> "AttributeError", evidence |-> <<>>]

collect_dynamic_evidence(content) ==
    LET content_quality == content.quality_score
        StanceAbove(limit) == IF content_quality > limit THEN "supports" ELSE "debunks"
    IN  (IF content.academic_language_score > 15
         THEN <<[stance |-> StanceAbove(70), credibility |-> 85],
                [stance |-> StanceAbove(65), credibility |-> 88]>>
         ELSE <<>>)
        \o (IF content_quality < 50
            THEN <<[stance |-> "debunks", credibility |-> 82]>> ELSE <<>>)
        \o <<[stance |-> StanceAbove(60), credibility |-> 75]>>

calculate_quality_multiplier(quality_score, scientific_score, manipulation_penalty) ==
    LET by_quality == IF quality_score >= 80 THEN 1200
                      ELSE IF quality_score <= 30 THEN 800 ELSE 1000
        by_science == IF scientific_score > 50 THEN (by_quality * 11) \div 10
                      ELSE by_quality
        by_penalty == IF manipulation_penalty > 50 THEN (by_science * 9) \div 10
                      ELSE by_science
    IN  IF by_penalty < 600 THEN 600 ELSE IF by_penalty > 1400 THEN 1400 ELSE by_penalty

\* evidence_comparison has no key 'supporting' or 'contradicting', so
\* evidence_score stays 0
calculate_dynamic_verdict(user_input, quality_multiplier, kb_similarity) ==
    LET base_score == 5000 + (quality_multiplier - 1000) * 2
                          + user_input.scientific_score * 15
                          - user_input.manipulation_score * 15
                          + (IF kb_similarity > 85 THEN (kb_similarity - 85) * 20 ELSE 0)
        final_score == IF base_score < 0 THEN 0
                       ELSE IF base_score > 10000 THEN 10000 ELSE base_score
    IN  [verdict |-> IF final_score >= 7000 THEN "TRUE"
                     ELSE IF final_score <= 3000 THEN "FALSE" ELSE "UNCLEAR",
         credibility_score |-> final_score]

\* step 8: content sensitivity and the variance near 50
AdjustOverall(user_input, content, overall_credibility) ==
    LET sensitive ==
            IF content.quality_score > 0
            THEN Clamp(Rat(overall_credibility * 10 + (content.quality_score - 50) * 2, 10),
                       5, 95)
            ELSE Rat(overall_credibility, 1)
    IN  IF InRange(sensitive, 48, 52)
        THEN Clamp(RatAdd(sensitive, Rat(user_input.variance_hash - 5, 1)), 5, 95)
        ELSE sensitive

\* the calls whose values reach only the reasoning text (_analyze_evidence,
\* _calculate_final_scores, _generate_detailed_reasoning and the first
\* _calculate_quality_multiplier) are left out
analyze_misinformation(user_input, sources, ml, kb_similarity, content_hash) ==
    LET content == analyze_content_quality(user_input, content_hash)
        kb == IF kb_similarity > 85 THEN generate_kb_evidence(kb_similarity)
              ELSE [raised |-> "none", evidence |-> <<>>]
        with_kb == sources \o kb.evidence
        collected == IF with_kb = <<>> THEN collect_dynamic_evidence(content) ELSE with_kb
        evidence_comparison == compare_against_evidence(collected)
        quality_multiplier ==
            calculate_quality_multiplier(content.quality_score,
                                         user_input.scientific_score, 0)
        verdict_data == calculate_dynamic_verdict(user_input, quality_multiplier,
                                                  kb_similarity)
        verdict == IF kb_similarity > 85 THEN verdict_data.verdict
                   ELSE decide_verdict(evidence_comparison).verdict
        scores == calculate_structured_scores(user_input, evidence_comparison)
    IN  IF kb.raised # "none" THEN [raised |-> kb.raised]
        ELSE IF ml = "error" THEN [raised |-> "UnboundLocalError"]
        ELSE [raised |-> "none",
              verdict_data |-> verdict_data,
              result |->
                  [verdict |-> verdict,
                   scores |->
                       [scores EXCEPT !.overall_credibility =
                            Trunc(AdjustOverall(user_input, content, @))],
                   content_quality |-> content.quality_score,
                   kb_match |-> kb_similarity > 0]]

SuppliedEvidence ==
    { <<>>,
      <<[stance |-> "supports", credibility |-> 90]>>,
      <<[stance |-> "supports", credibility |-> 90],
        [stance |-> "contradicts", credibility |-> 90]>> }

MisinformationInputs ==
    [fn : {"analyze_misinformation"}, user_input : UserInputs,
     evidence_sources : SuppliedEvidence, ml : MlServices,
     kb_similarity : KbSimilarities]

InitMisinformation ==
    /\ score_input \in MisinformationInputs
    /\ score_result = NoCall
    /\ IdleAggregate
    /\ IdleVerify
    /\ IdleCache
    /\ IdleRetriever

\* the calls made so far on score_input, one per process
Runs == IF score_result = NoCall THEN <<>> ELSE score_result.runs

AnalyzeMisinformation ==
    /\ score_input.fn = "analyze_misinformation"
    /\ Len(Runs) < MaxProcesses
    /\ \E content_hash \in HashResidues :
           score_result' =
               [called |-> TRUE, fn |-> "analyze_misinformation",
                runs |-> Append(Runs,
                                analyze_misinformation(
                                    score_input.user_input, score_input.evidence_sources,
                                    score_input.ml, score_input.kb_similarity,
                                    content_hash))]
    /\ UNCHANGED score_input
    /\ UNCHANGED <<aggVars, verifyVars, cacheVars, retrieverVars>>

SpecMisinformation == InitMisinformation /\ [][AnalyzeMisinformation]_vars

\* C24: two executions of analyze_misinformation on the same user_input
\* and the same evidence_sources, in different processes, return the same
\* verdict, the same five scores and the same content_quality.
C24_SameResultInEveryProcess ==
    ScoredBy("analyze_misinformation") =>
        \A i, j \in DOMAIN score_result.runs :
            /\ score_result.runs[i].raised = "none"
            /\ score_result.runs[j].raised = "none"
            => /\ score_result.runs[i].result.verdict = score_result.runs[j].result.verdict
               /\ score_result.runs[i].result.scores = score_result.runs[j].result.scores
               /\ score_result.runs[i].result.content_quality
                      = score_result.runs[j].result.content_quality

\* C27: a result that analyze_misinformation returns has the verdict TRUE,
\* FALSE or AMBIGUOUS, with or without a knowledge-base match; the
\* UNCLEAR of _calculate_dynamic_verdict is never the verdict of a result.
C27_VerdictIsCanonical ==
    ScoredBy("analyze_misinformation") =>
        \A i \in DOMAIN score_result.runs :
            score_result.runs[i].raised = "none" =>
                score_result.runs[i].result.verdict \in {"TRUE", "FALSE", "AMBIGUOUS"}

\* a result with a knowledge-base match whose dynamic verdict was UNCLEAR
C27_Witness ==
    /\ ScoredBy("analyze_misinformation")
    /\ \E i \in DOMAIN score_result.runs :
           /\ score_result.runs[i].raised = "none"
           /\ score_result.runs[i].verdict_data.verdict = "UNCLEAR"
           /\ score_result.runs[i].result.kb_match
           /\ score_result.runs[i].result.verdict = "FALSE"

(***************************************************************************)
(* Start of the service: the models of the fact checker load or fail to    *)
(* load when the process starts; the database file outlives the process    *)
(***************************************************************************)
InitStartup ==
    /\ analysis_cache = {}
    /\ next_rowid = 1
    /\ last_put = [k \in Keys |-> PyNone]
    /\ req = [r \in 1..NumRequests |-> IdleRequest]
    /\ models = "None"
    /\ InitRetriever(ServedRows)
    /\ IdleAggregate
    /\ IdleVerify
    /\ IdleScore

\* the process is started again: main.py creates a new EnhancedFactChecker
\* (lines 22 and 37-38), whose __init__ loads the models or, on an
\* exception, sets both to None; the requests of the old process are gone
\* and the retriever is new, table analysis_cache is kept
StartProcess ==
    /\ \E loaded \in {"loaded", "None"} : models' = loaded
    /\ req' = [r \in 1..NumRequests |-> IdleRequest]
    /\ index' = PyNone
    /\ fact_checks' = <<>>
    /\ UNCHANGED <<analysis_cache, next_rowid, last_put>>
    /\ UNCHANGED <<corpus, index_file, build, query>>
    /\ UNCHANGED <<aggVars, verifyVars, scoreVars>>

NextStartup ==
    \/ StartProcess
    \/ \E r \in 1..NumRequests : AnalyzeLookup(r)
    \/ \E r \in 1..NumRequests : AnalyzeCompute(r)
    \/ \E r \in 1..NumRequests : AnalyzeStore(r)
    \/ \E r \in 1..NumRequests : AnalyzeFinish(r)

SpecStartup == InitStartup /\ [][NextStartup]_vars

IsPlaceholder(response) == response # PyNone /\ DictEq(response, Placeholder)

\* C29: once the models are loaded, no /analyze call that started after
\* they became available returns the placeholder result (AMBIGUOUS with an
\* all-zero fingerprint), also for an input first submitted while the
\* models were unavailable.
C29_PlaceholderNotServedOnceLoaded ==
    \A r \in 1..NumRequests :
        (models = "loaded" /\ req[r].pc = "done") => ~IsPlaceholder(req[r].response)

====
